---- MODULE Spec2Model ----
(***************************************************************************)
(* Driver-side engine of the ride-hailing client:                          *)
(*   - the ride state machine of src/src/Screen1.tsx (DriverScreen),       *)
(*   - the Android BackgroundLocationService with its reconnect logic,     *)
(*     durable store and BootCompleteReceiver,                             *)
(*   - the LocationTracker sample filter (src/src/utils/LocationUtils.ts), *)
(*   - the route geometry of RouteService / SmoothPolyline.                *)
(* Every sub-system has its own specification over its own variables; the  *)
(* variables of the other sub-systems stay at their initial values.        *)
(***************************************************************************)
EXTENDS Integers, Sequences, FiniteSets, TLC

(***************************************************************************)
(* Bounds of the model (not program constants).                            *)
(***************************************************************************)
\* ride ids the backend may offer: 1..MaxRides
MaxRides == 2
\* acceptRide emits awaiting their acknowledgement, plus accepts waiting
\* for a reconnect
MaxInFlight == 2
\* offers received in one run of the acceptance / OTP machine
MaxOffers == 2
\* offers received in one run of the billing machine
MaxBilledOffers == 1
\* offers received in one run of the crash / resume machine
MaxRestoredOffers == 1
\* heartbeat runnables one service instance may have pending
MaxHeartbeatChains == 2
\* reconnect callbacks one service instance may have pending
MaxReconnectTimers == 2
\* fixes given to one LocationTracker
MaxFixes == 3
\* points of a route
MaxRouteLen == 3
\* the largest hint index given to the route search
MaxHintIndex == 7
\* points of a route given to simplifyRoute
MaxSimplifyLen == 4
\* fixes and polyline updates handled in one run of the navigation machine
MaxLocationEvents == 2
\* reconnect timeouts of socket.ts pending together
MaxReconnectTimeouts == 2
\* emits recorded after a connection
MaxOutbound == 2
\* setItem / removeItem calls on 'rideState' in progress together
MaxSnapshotWrites == 3
\* fixes that arrive in one run of the location emitters
MaxEmissionFixes == 3
\* offers whose handleRideRequest awaits the ride details together
MaxOfferFetches == 2
\* points of a route given to interpolateRoutes
MaxInterpolateLen == 2
\* progress is given in steps of 1 / ProgressScale
ProgressScale == 2

(***************************************************************************)
(* Values.                                                                 *)
(***************************************************************************)
RideIds == 1..MaxRides
\* "no ride id" (rideId undefined / null / "")
NoId == 0
\* ride === null
NoRide == [rideId |-> NoId, otp |-> ""]
\* this driver, and another driver of the fleet
DriverId == "d1"
OtherDriverId == "d2"
\* the otp field of an offer: absent ("") or a 4-digit code
OfferOtps == {"", "1234"}
\* codes the backend may send with rideOTP
ServerOtps == {"1234"}
\* what the driver may type into the OTP field
TypedOtps == {"1234", "12"}
\* rideStatus of DriverScreen
RideStatuses == {"idle", "onTheWay", "accepted", "started", "completed"}
ActiveStatuses == {"accepted", "started"}
\* fare / distance pairs the backend may answer with
BackendBills == {[fare |-> 100, distance |-> 7], [fare |-> 250, distance |-> 12]}
\* useState billDetails: distance '0 km', charge 0
InitialBill == [fare |-> 0, distance |-> 0]

VARIABLES
  \* ---- DriverScreen (Screen1.tsx) ----
  ride,                 \* useState ride (null = NoRide)
  rideStatus,           \* useState rideStatus
  isDriverOnline,       \* useState isDriverOnline
  socketConnected,      \* socket.connected of the JS socket
  isAccepting,          \* useState isAccepting
  acceptButtonDisabled, \* useState acceptButtonDisabled
  pendingAcceptRideId,  \* useState pendingAcceptRideId
  isLoading,            \* useState isLoading
  alertClosure,         \* the render captured by handleRideRequest's acceptRide
  alert,                \* the Alert dialog with handlers that is on screen
  acceptInFlight,       \* acceptRide emits awaiting the acknowledgement
  acceptWaitConnect,    \* acceptRide calls parked on socket.once("connect")
  otpModalVisible,      \* useState otpModalVisible
  enteredOtp,           \* useState enteredOtp
  otpVerifying,         \* useState otpVerifying
  tripStartTimer,       \* setTimeout(proceedWithTripStartSafe, 100) pending
  otpMatchedFor,        \* history: rideIds for which confirmOTP matched
  completionInFlight,   \* submitRideCompletion awaiting the HTTP result
  showBillModal,        \* useState showBillModal
  billDetails,          \* useState billDetails (fare, distance)
  backendBills,         \* history: bills received from the backend
  emitted,              \* messages sent by the last handler step
  rideState,            \* AsyncStorage 'rideState' snapshot
  authToken,            \* AsyncStorage 'authToken' present
  restoreInFlight,      \* restoreRideState awaiting its reads / the backend
  lastRestore,          \* history: how the last restoreRideState ended
  offerCount,           \* history: the number of offers received
  \* ---- BackgroundLocationService.java and its bridge ----
  serviceAlive,         \* a service instance exists (onCreate .. onDestroy)
  serviceFields,        \* driverId, vehicleType, socketUrl, rideId, rideStatus
  isRunning,            \* field isRunning
  socket,               \* field socket: "null", "idle", "connecting", "connected"
  isSocketConnected,    \* field isSocketConnected
  reconnectAttempts,    \* field reconnectAttempts
  reconnectTimers,      \* callbacks pending in socketReconnectHandler
  heartbeatChains,      \* heartbeat runnables pending in heartbeatHandler
  isBound,              \* LocationServiceModule.isBound
  prefs,                \* SharedPreferences "DriverServicePrefs"
  stickyPending,        \* the system owes a restart of the killed service
  booting,              \* the device went down, BOOT_COMPLETED is pending
  driverOnline,         \* history: started and not explicitly gone offline
  autoConnects,         \* history: automatic connects since the last
                        \* connection or explicit start
  \* ---- heartbeat effect of DriverScreen (Screen1.tsx) ----
  socketReconnectAttempts, \* useRef socketReconnectAttempts
  heartbeatSocket,      \* the JS socket: "down", "opening", "up"
  ticksFailedInARow,    \* history: reconnectSocket() calls failed in a row
  \* ---- LocationTracker (LocationUtils.ts) ----
  locationBuffer,       \* field locationBuffer (latitudes)
  lastValidLocation,    \* field lastValidLocation
  totalDistance,        \* field totalDistance
  trackingResult,       \* what the last processLocation returned
  lastFix,              \* history: the arguments of the last processLocation
  fixCount,             \* history: the number of processLocation calls
  \* ---- route geometry (RouteService.ts, SmoothPolyline.ts) ----
  fullRoute,            \* argument route / fullRoute
  driverLocation,       \* argument driverLocation / location
  lastNearestIndex,     \* argument lastKnownIndex / startIndex
  searchRadius,         \* argument searchRadius of findNearestPointOnRoute
  nearestOnRoute,       \* result of findNearestPointOnRoute
  nearestIndexed,       \* result of findNearestPointIndex
  routeSegments,        \* result of RouteService.splitRouteAtDriver
  polylineSegments,     \* result of SmoothPolyline.splitRouteAtDriver
  \* ---- simplifyRoute (RouteService.ts, SmoothPolyline.ts) ----
  simplifyInput,        \* argument route of simplifyRoute
  simplifiedRoute,      \* result of RouteService.simplifyRoute
  simplifiedPolyline,   \* result of SmoothPolyline.simplifyRoute
  \* ---- map and navigation of DriverScreen (Screen1.tsx) ----
  fullRouteCoords,      \* useState fullRouteCoords: the route on the map
  nearestPointIndex,    \* useState nearestPointIndex (0, or 1 = further on)
  lastCoord,            \* useState lastCoord (0 = null, 1 = a position)
  tripStartLocation,    \* useState tripStartLocation (0 = null, 1 = set)
  offRouteReFetchInProgress, \* useRef offRouteReFetchInProgress
  lastOffRouteCheckTime, \* useRef lastOffRouteCheckTime: within the last 3 s
  recalcInFlight,       \* getRouteWithDetails calls awaiting their answer
  locationEvents,       \* history: fixes and polyline updates handled
  lastInbound,          \* history: the last rideCancelled handled
  lastLocationEvent,    \* history: what the last fix / polyline update saw
  \* ---- socket.ts and the connection handlers of DriverScreen ----
  heartbeatInterval,    \* socket.ts heartbeatInterval: 0 = null, else a timer id
  autoReconnectEnabled, \* socket.ts autoReconnectEnabled
  reconnectTimeouts,    \* pending setTimeout(() => socket.connect(), 1000)
  explicitDisconnect,   \* history: disconnectSocket() and no connectSocket()
                        \* since
  outbound,             \* history: emits since the socket last connected
  locationKnown,        \* useState location is not null
  tickWaiting,          \* the heartbeat callback is in its 2.5 s wait
  isRegistered,         \* useState isRegistered
  \* ---- the 'rideState' key of AsyncStorage ----
  snapshotWrites,       \* setItem / removeItem calls on the key that have not finished
  snapshotStored,       \* what the storage holds under the key
  \* ---- the emitters of driverLocationUpdate (Screen1.tsx) ----
  locationFix,            \* useState location: the number of the latest fix, 0 = null
  fixAwaitingRoute,     \* the fix whose handleLocationUpdate awaits the route, 0 = none
  emitterConnected,     \* socket.connected
  waitingTickLocation,  \* location of the heartbeat callback in its 2.5 s wait
  lastEmittedFix,       \* the fix of the last driverLocationUpdate emitted, 0 = none
  \* ---- handleRideRequest awaiting the ride details (Screen1.tsx) ----
  offerFetches,         \* offers whose handleRideRequest awaits the ride details
  takenSinceOffer,      \* history: rides reported taken since their last offer
  \* ---- interpolateRoutes / interpolateRoute (route animation) ----
  interpolateOld,       \* argument oldRoute (latitudes)
  interpolateNew,       \* argument newRoute
  interpolateProgress,  \* argument progress, in units of 1 / ProgressScale
  interpolatedRoutes,   \* result of interpolateRoutes (RouteService)
  interpolatedRoute,    \* result of interpolateRoute (SmoothPolyline)
  interpolatedHook,     \* result of interpolateRoutes (animation hook)
  \* ---- fetchRoute (Screen1.tsx) ----
  fetchCalls            \* the fetchRoute call of the accept and of the trip start

rideVars == <<ride, rideStatus, isDriverOnline, socketConnected, isAccepting,
              acceptButtonDisabled, pendingAcceptRideId, isLoading,
              alertClosure, alert, acceptInFlight, acceptWaitConnect,
              otpModalVisible, enteredOtp, otpVerifying, tripStartTimer,
              otpMatchedFor, completionInFlight, showBillModal, billDetails,
              backendBills, emitted, rideState, authToken, restoreInFlight,
              lastRestore, offerCount>>

serviceVars == <<serviceAlive, serviceFields, isRunning, socket,
                 isSocketConnected, reconnectAttempts, reconnectTimers,
                 heartbeatChains, isBound, prefs, stickyPending, booting,
                 driverOnline, autoConnects>>

heartbeatVars == <<socketReconnectAttempts, heartbeatSocket,
                   ticksFailedInARow>>

trackerVars == <<locationBuffer, lastValidLocation, totalDistance,
                 trackingResult, lastFix, fixCount>>

routeVars == <<fullRoute, driverLocation, lastNearestIndex, searchRadius,
               nearestOnRoute, nearestIndexed, routeSegments,
               polylineSegments>>

simplifyVars == <<simplifyInput, simplifiedRoute, simplifiedPolyline>>

navigationVars == <<fullRouteCoords, nearestPointIndex, lastCoord,
                    tripStartLocation, offRouteReFetchInProgress,
                    lastOffRouteCheckTime, recalcInFlight, locationEvents,
                    lastInbound, lastLocationEvent>>

channelVars == <<heartbeatInterval, autoReconnectEnabled, reconnectTimeouts,
                 explicitDisconnect, outbound, locationKnown, tickWaiting,
                 isRegistered>>

snapshotVars == <<snapshotWrites, snapshotStored>>

emissionVars == <<locationFix, fixAwaitingRoute, emitterConnected, waitingTickLocation, lastEmittedFix>>

offerVars == <<offerFetches, takenSinceOffer>>

interpolateVars == <<interpolateOld, interpolateNew, interpolateProgress, interpolatedRoutes, interpolatedRoute, interpolatedHook>>

fetchVars == <<fetchCalls>>

vars == <<rideVars,
         serviceVars,
         heartbeatVars,
         trackerVars,
         routeVars,
         simplifyVars,
         navigationVars,
         channelVars,
         snapshotVars,
         emissionVars,
         offerVars,
         interpolateVars,
         fetchVars>>

\* what the steps of one sub-system leave alone
UnchangedOutsideRide ==
  UNCHANGED <<serviceVars,
              heartbeatVars,
              trackerVars,
              routeVars,
              simplifyVars,
              navigationVars,
              channelVars,
              snapshotVars,
              emissionVars,
              offerVars,
              interpolateVars,
              fetchVars>>
UnchangedOutsideService ==
  UNCHANGED <<rideVars,
              heartbeatVars,
              trackerVars,
              routeVars,
              simplifyVars,
              navigationVars,
              channelVars,
              snapshotVars,
              emissionVars,
              offerVars,
              interpolateVars,
              fetchVars>>
UnchangedOutsideHeartbeat ==
  UNCHANGED <<rideVars,
              serviceVars,
              trackerVars,
              routeVars,
              simplifyVars,
              navigationVars,
              channelVars,
              snapshotVars,
              emissionVars,
              offerVars,
              interpolateVars,
              fetchVars>>
UnchangedOutsideTracker ==
  UNCHANGED <<rideVars,
              serviceVars,
              heartbeatVars,
              routeVars,
              simplifyVars,
              navigationVars,
              channelVars,
              snapshotVars,
              emissionVars,
              offerVars,
              interpolateVars,
              fetchVars>>
UnchangedOutsideRoute ==
  UNCHANGED <<rideVars,
              serviceVars,
              heartbeatVars,
              trackerVars,
              simplifyVars,
              navigationVars,
              channelVars,
              snapshotVars,
              emissionVars,
              offerVars,
              interpolateVars,
              fetchVars>>
UnchangedOutsideSimplify ==
  UNCHANGED <<rideVars,
              serviceVars,
              heartbeatVars,
              trackerVars,
              routeVars,
              navigationVars,
              channelVars,
              snapshotVars,
              emissionVars,
              offerVars,
              interpolateVars,
              fetchVars>>
UnchangedOutsideNavigation ==
  UNCHANGED <<rideVars,
              serviceVars,
              heartbeatVars,
              trackerVars,
              routeVars,
              simplifyVars,
              channelVars,
              snapshotVars,
              emissionVars,
              offerVars,
              interpolateVars,
              fetchVars>>
UnchangedOutsideRideAndNavigation ==
  UNCHANGED <<serviceVars,
              heartbeatVars,
              trackerVars,
              routeVars,
              simplifyVars,
              channelVars,
              snapshotVars,
              emissionVars,
              offerVars,
              interpolateVars,
              fetchVars>>
UnchangedOutsideChannel ==
  UNCHANGED <<rideVars,
              serviceVars,
              heartbeatVars,
              trackerVars,
              routeVars,
              simplifyVars,
              navigationVars,
              snapshotVars,
              emissionVars,
              offerVars,
              interpolateVars,
              fetchVars>>
UnchangedOutsideChannelAndHeartbeat ==
  UNCHANGED <<rideVars,
              serviceVars,
              trackerVars,
              routeVars,
              simplifyVars,
              navigationVars,
              snapshotVars,
              emissionVars,
              offerVars,
              interpolateVars,
              fetchVars>>
UnchangedOutsideRideChannelAndHeartbeat ==
  UNCHANGED <<serviceVars,
              trackerVars,
              routeVars,
              simplifyVars,
              navigationVars,
              snapshotVars,
              emissionVars,
              offerVars,
              interpolateVars,
              fetchVars>>
UnchangedOutsideRideAndSnapshot ==
  UNCHANGED <<serviceVars,
              heartbeatVars,
              trackerVars,
              routeVars,
              simplifyVars,
              navigationVars,
              channelVars,
              emissionVars,
              offerVars,
              interpolateVars,
              fetchVars>>
UnchangedOutsideSnapshot ==
  UNCHANGED <<rideVars,
              serviceVars,
              heartbeatVars,
              trackerVars,
              routeVars,
              simplifyVars,
              navigationVars,
              channelVars,
              emissionVars,
              offerVars,
              interpolateVars,
              fetchVars>>
UnchangedOutsideEmission ==
  UNCHANGED <<rideVars,
              serviceVars,
              heartbeatVars,
              trackerVars,
              routeVars,
              simplifyVars,
              navigationVars,
              channelVars,
              snapshotVars,
              offerVars,
              interpolateVars,
              fetchVars>>
UnchangedOutsideRideAndOffer ==
  UNCHANGED <<serviceVars,
              heartbeatVars,
              trackerVars,
              routeVars,
              simplifyVars,
              navigationVars,
              channelVars,
              snapshotVars,
              emissionVars,
              interpolateVars,
              fetchVars>>
UnchangedOutsideOffer ==
  UNCHANGED <<rideVars,
              serviceVars,
              heartbeatVars,
              trackerVars,
              routeVars,
              simplifyVars,
              navigationVars,
              channelVars,
              snapshotVars,
              emissionVars,
              interpolateVars,
              fetchVars>>
UnchangedOutsideInterpolate ==
  UNCHANGED <<rideVars,
              serviceVars,
              heartbeatVars,
              trackerVars,
              routeVars,
              simplifyVars,
              navigationVars,
              channelVars,
              snapshotVars,
              emissionVars,
              offerVars,
              fetchVars>>
UnchangedOutsideRideAndFetch ==
  UNCHANGED <<serviceVars,
              heartbeatVars,
              trackerVars,
              routeVars,
              simplifyVars,
              navigationVars,
              channelVars,
              snapshotVars,
              emissionVars,
              offerVars,
              interpolateVars>>
UnchangedOutsideFetch ==
  UNCHANGED <<rideVars,
              serviceVars,
              heartbeatVars,
              trackerVars,
              routeVars,
              simplifyVars,
              navigationVars,
              channelVars,
              snapshotVars,
              emissionVars,
              offerVars,
              interpolateVars>>

(***************************************************************************)
(* DriverScreen: helpers.                                                  *)
(***************************************************************************)
\* no snapshot under the 'rideState' key
NoSnapshot == [ride |-> NoRide, rideStatus |-> "none"]
\* no Alert with handlers on screen
NoAlert == [kind |-> "none", rideId |-> NoId]
\* an Alert is a modal dialog: the screen's own buttons and fields take
\* input only while none is up
NoDialog == alert = NoAlert

\* what the functions of one render see of the state: the acceptRide guard
\* (acceptButtonDisabled || isAccepting), ride and rideStatus
CurrentClosure ==
  [locked |-> (acceptButtonDisabled \/ isAccepting), ride |-> ride,
   rideStatus |-> rideStatus]

InitialClosure == [locked |-> FALSE, ride |-> NoRide, rideStatus |-> "idle"]

\* a message leaving the screen: a socket emit, an HTTP request or a call of
\* the native service, with the names of the payload's fields
Message(type, r, fields) == [type |-> type, rideId |-> r, fields |-> fields]

\* NativeLocationService.updateRideStatus(status, rideId)
UpdateRideStatusCall(status, r) ==
  Message("updateRideStatus:" \o status, r, {"status", "rideId"})

\* the "Save ride state whenever it changes" effect, run after a handler that
\* left the screen with ride r and status s; base is what the handler itself
\* left under the key
SaveEffect(r, s, base) ==
  IF r # NoRide /\ s \in ActiveStatuses /\ <<r, s>> # <<ride, rideStatus>>
  THEN [ride |-> r, rideStatus |-> s]
  ELSE base

\* saveRideState() called from a closure c: it writes what that render saw
SaveRideState(c) == [ride |-> c.ride, rideStatus |-> c.rideStatus]

UnchangedOtp == UNCHANGED <<otpModalVisible, enteredOtp, otpVerifying,
                            tripStartTimer, otpMatchedFor>>
UnchangedBilling == UNCHANGED <<completionInFlight, showBillModal,
                                billDetails, backendBills>>
UnchangedAccept == UNCHANGED <<isAccepting, acceptButtonDisabled,
                               pendingAcceptRideId, isLoading, acceptInFlight,
                               acceptWaitConnect>>
UnchangedStore == UNCHANGED <<rideState, authToken, restoreInFlight,
                              lastRestore, offerCount>>

(***************************************************************************)
(* DriverScreen: going online / offline.  handleRideRequest and            *)
(* handleNotificationRideRequest are useCallback([isDriverOnline,          *)
(* driverVehicleType]): the acceptRide their Alert buttons call is the one *)
(* of the render in which isDriverOnline last changed.                     *)
(***************************************************************************)
\* toggleOnlineStatus / goOfflineNormally: setIsDriverOnline
SetDriverOnline(b) ==
  /\ NoDialog
  /\ isDriverOnline # b
  /\ isDriverOnline' = b
  /\ alertClosure' = CurrentClosure
  /\ emitted' = {}
  /\ UNCHANGED <<ride, rideStatus, socketConnected, alert>>
  /\ UnchangedAccept /\ UnchangedOtp /\ UnchangedBilling /\ UnchangedStore

(***************************************************************************)
(* DriverScreen: ride offers.                                              *)
(***************************************************************************)
\* rideData.otp: data.otp || "0000"
OfferedOtp(otp) == IF otp = "" THEN "0000" ELSE otp

\* handleRideRequest (socket newRideRequest) and
\* handleNotificationRideRequest (push notification) for an offer of ride r
\* carrying otp: setRide(rideData); setRideStatus("onTheWay");
\* Alert.alert(... Reject / Accept), which takes the place of the dialog
\* that was on screen
HandleRideRequest(r, otp) ==
  /\ r # NoId
  /\ isDriverOnline
  /\ ride' = [rideId |-> r, otp |-> OfferedOtp(otp)]
  /\ rideStatus' = "onTheWay"
  /\ alert' = [kind |-> "offer", rideId |-> r]
  /\ emitted' = {}
  /\ offerCount' = offerCount + 1
  /\ rideState' = SaveEffect(ride', rideStatus', rideState)
  /\ UNCHANGED <<isDriverOnline, socketConnected, alertClosure, authToken,
                 restoreInFlight, lastRestore>>
  /\ UnchangedAccept /\ UnchangedOtp /\ UnchangedBilling

(***************************************************************************)
(* DriverScreen: acceptRide.                                               *)
(***************************************************************************)
AcceptRideMessage(r) ==
  Message("acceptRide", r, {"rideId", "driverId", "driverName", "driverLat",
                            "driverLng", "vehicleType"})

\* acceptRide(rideId) run in the render c; the caller frames the rest
AcceptRide(rideIdArg, c) ==
  LET currentRideId == IF rideIdArg # NoId THEN rideIdArg ELSE c.ride.rideId
  IN  IF \/ currentRideId = NoId
         \/ DriverId = ""
         \/ c.locked
      THEN /\ emitted' = {}
           /\ UnchangedAccept
      ELSE /\ acceptButtonDisabled' = TRUE
           /\ isAccepting' = TRUE
           /\ pendingAcceptRideId' = currentRideId
           /\ IF ~socketConnected
              THEN \* reconnectSocket(); socket.once("connect", ...)
                   /\ acceptWaitConnect' = acceptWaitConnect \cup
                          {[rideId |-> currentRideId, c |-> c]}
                   /\ emitted' = {}
                   /\ UNCHANGED <<isLoading, acceptInFlight>>
              ELSE /\ isLoading' = TRUE
                   /\ acceptInFlight' = Append(acceptInFlight,
                          [rideId |-> currentRideId, c |-> c])
                   /\ emitted' = {AcceptRideMessage(currentRideId)}
                   /\ UNCHANGED acceptWaitConnect

\* room for one more acceptRide call within the bounds of the model
AcceptRoom == Len(acceptInFlight) + Cardinality(acceptWaitConnect) < MaxInFlight

\* the "Accept Ride" button, rendered while ride && rideStatus === "onTheWay"
TapAcceptButton ==
  /\ NoDialog
  /\ ride # NoRide
  /\ rideStatus = "onTheWay"
  /\ ~isLoading
  /\ AcceptRoom
  /\ AcceptRide(NoId, CurrentClosure)
  /\ UNCHANGED <<ride, rideStatus, isDriverOnline, socketConnected,
                 alertClosure, alert>>
  /\ UnchangedOtp /\ UnchangedBilling /\ UnchangedStore

\* the "Accept" button of the offer Alert
TapAlertAccept ==
  /\ alert.kind = "offer"
  /\ AcceptRoom
  /\ alert' = NoAlert
  /\ AcceptRide(alert.rideId, alertClosure)
  /\ UNCHANGED <<ride, rideStatus, isDriverOnline, socketConnected,
                 alertClosure>>
  /\ UnchangedOtp /\ UnchangedBilling /\ UnchangedStore

\* the timer set by socket.once("connect") of a parked acceptRide:
\* setAcceptButtonDisabled(false); setIsAccepting(false); acceptRide(id),
\* the acceptRide of the render that parked it
AcceptRetry(w) ==
  /\ w \in acceptWaitConnect
  /\ socketConnected
  /\ acceptButtonDisabled' = TRUE
  /\ isAccepting' = TRUE
  /\ pendingAcceptRideId' = w.rideId
  /\ isLoading' = TRUE
  /\ acceptWaitConnect' = acceptWaitConnect \ {w}
  /\ acceptInFlight' = Append(acceptInFlight, [rideId |-> w.rideId, c |-> w.c])
  /\ emitted' = {AcceptRideMessage(w.rideId)}
  /\ UNCHANGED <<ride, rideStatus, isDriverOnline, socketConnected,
                 alertClosure, alert>>
  /\ UnchangedOtp /\ UnchangedBilling /\ UnchangedStore

\* what the backend may answer to acceptRide
AcceptResponses == {"success", "rideCancelled", "alreadyAccepted", "error"}

\* the one-element removal of a sequence
RemoveAt(s, i) == [j \in 1..(Len(s) - 1) |-> IF j < i THEN s[j] ELSE s[j + 1]]

\* the acknowledgement callback of socket.emit("acceptRide", ...)
AcceptAck(i, resp) ==
  /\ i \in 1..Len(acceptInFlight)
  /\ LET a == acceptInFlight[i] IN
     /\ acceptInFlight' = RemoveAt(acceptInFlight, i)
     /\ isLoading' = FALSE
     /\ isAccepting' = FALSE
     /\ pendingAcceptRideId' = NoId
     /\ acceptButtonDisabled' = FALSE
     /\ CASE resp = "success" ->
               /\ rideStatus' = "accepted"
               /\ ride' = ride
               /\ emitted' =
                    {UpdateRideStatusCall("accepted", a.c.ride.rideId),
                     Message("rideTakenByDriver", a.rideId,
                             {"rideId", "driverId", "driverName"}),
                     Message("driverAcceptedRide", a.rideId,
                             {"rideId", "driverId", "userId", "driverLocation"})}
               /\ rideState' = SaveEffect(ride', rideStatus', SaveRideState(a.c))
          [] resp \in {"rideCancelled", "alreadyAccepted"} ->
               /\ ride' = NoRide
               /\ rideStatus' = "idle"
               /\ emitted' = {}
               /\ UNCHANGED rideState
          [] OTHER ->
               /\ rideStatus' = "idle"
               /\ ride' = ride
               /\ emitted' = {}
               /\ UNCHANGED rideState
  /\ UNCHANGED <<isDriverOnline, socketConnected, alertClosure, alert,
                 acceptWaitConnect, authToken, restoreInFlight, lastRestore, offerCount>>
  /\ UnchangedOtp /\ UnchangedBilling

\* rejectRide(rideId) run in the render c: clearMapData(); setRide(null);
\* setRideStatus("idle"); socket.emit("rejectRide")
RejectRide(rideIdArg, c) ==
  LET currentRideId == IF rideIdArg # NoId THEN rideIdArg ELSE c.ride.rideId
  IN  IF currentRideId = NoId
      THEN /\ emitted' = {}
           /\ UNCHANGED <<ride, rideStatus>>
      ELSE /\ ride' = NoRide
           /\ rideStatus' = "idle"
           /\ emitted' = {Message("rejectRide", currentRideId,
                                  {"rideId", "driverId"})}

\* the "Reject" button of the screen
TapRejectButton ==
  /\ NoDialog
  /\ ride # NoRide
  /\ rideStatus = "onTheWay"
  /\ RejectRide(NoId, CurrentClosure)
  /\ UNCHANGED <<isDriverOnline, socketConnected, alertClosure, alert>>
  /\ UnchangedAccept /\ UnchangedOtp /\ UnchangedBilling /\ UnchangedStore

\* the "Reject" button of the offer Alert
TapAlertReject ==
  /\ alert.kind = "offer"
  /\ alert' = NoAlert
  /\ RejectRide(alert.rideId, alertClosure)
  /\ UNCHANGED <<isDriverOnline, socketConnected, alertClosure>>
  /\ UnchangedAccept /\ UnchangedOtp /\ UnchangedBilling /\ UnchangedStore

\* the JS socket connects / drops
SocketConnect ==
  /\ ~socketConnected
  /\ socketConnected' = TRUE
  /\ emitted' = {}
  /\ UNCHANGED <<ride, rideStatus, isDriverOnline, alertClosure, alert>>
  /\ UnchangedAccept /\ UnchangedOtp /\ UnchangedBilling /\ UnchangedStore

SocketDisconnect ==
  /\ socketConnected
  /\ socketConnected' = FALSE
  /\ emitted' = {}
  /\ UNCHANGED <<ride, rideStatus, isDriverOnline, alertClosure, alert>>
  /\ UnchangedAccept /\ UnchangedOtp /\ UnchangedBilling /\ UnchangedStore

(***************************************************************************)
(* DriverScreen: inbound ride messages.  The socket effect re-registers    *)
(* these handlers on every change of ride / rideStatus, so they see the    *)
(* current render.                                                         *)
(***************************************************************************)
\* handleRideCancelled
HandleRideCancelled(r) ==
  /\ ride # NoRide /\ ride.rideId = r
  /\ IF rideStatus = "onTheWay"
     THEN /\ emitted' = {}
          /\ UNCHANGED <<ride, rideStatus, rideState>>
     ELSE /\ emitted' = {Message("driverRideCancelled", r,
                                 {"rideId", "driverId", "userId"})}
          /\ ride' = NoRide
          /\ rideStatus' = "idle"
          /\ rideState' = NoSnapshot
  /\ UNCHANGED <<isDriverOnline, socketConnected, alertClosure, alert,
                 authToken, restoreInFlight, lastRestore, offerCount>>
  /\ UnchangedAccept /\ UnchangedOtp /\ UnchangedBilling

\* handleRideAlreadyAccepted, and handleRideTakenByDriver for a ride taken
\* by driver by
HandleRideTaken(r, by) ==
  /\ by # DriverId
  /\ ride # NoRide /\ ride.rideId = r
  /\ ride' = NoRide
  /\ rideStatus' = "idle"
  /\ emitted' = {}
  /\ UNCHANGED <<isDriverOnline, socketConnected, alertClosure, alert>>
  /\ UnchangedAccept /\ UnchangedOtp /\ UnchangedBilling /\ UnchangedStore

\* handleRideOTP
HandleRideOTP(r, otp) ==
  /\ ride # NoRide /\ ride.rideId = r
  /\ ride' = [ride EXCEPT !.otp = otp]
  /\ rideState' = SaveEffect(ride', rideStatus, rideState)
  /\ emitted' = {}
  /\ UNCHANGED <<rideStatus, isDriverOnline, socketConnected, alertClosure,
                 alert, authToken, restoreInFlight, lastRestore, offerCount>>
  /\ UnchangedAccept /\ UnchangedOtp /\ UnchangedBilling

(***************************************************************************)
(* DriverScreen: the OTP gate.                                             *)
(***************************************************************************)
\* "Enter OTP & Start Ride", rendered while rideStatus === "accepted"
OpenOtpModal ==
  /\ NoDialog
  /\ ride # NoRide
  /\ rideStatus = "accepted"
  /\ ~otpModalVisible
  /\ otpModalVisible' = TRUE
  /\ emitted' = {}
  /\ UNCHANGED <<ride, rideStatus, isDriverOnline, socketConnected,
                 alertClosure, alert, enteredOtp, otpVerifying,
                 tripStartTimer, otpMatchedFor>>
  /\ UnchangedAccept /\ UnchangedBilling /\ UnchangedStore

\* the TextInput of the OTP modal: onChangeText={setEnteredOtp}
TypeOtp(code) ==
  /\ NoDialog
  /\ otpModalVisible
  /\ enteredOtp # code
  /\ enteredOtp' = code
  /\ emitted' = {}
  /\ UNCHANGED <<ride, rideStatus, isDriverOnline, socketConnected,
                 alertClosure, alert, otpModalVisible, otpVerifying,
                 tripStartTimer, otpMatchedFor>>
  /\ UnchangedAccept /\ UnchangedBilling /\ UnchangedStore

NoTimer == [pending |-> FALSE, c |-> InitialClosure]

\* whether confirmOTP lets code pass for ride r: the ride is there with an
\* otp, the code has 4 characters and equals the otp
OtpAccepted(r, code) ==
  /\ r # NoRide
  /\ r.otp # ""
  /\ Len(code) = 4
  /\ code = r.otp

\* confirmOTP, the modal's confirm button.  The driver's position (location
\* || lastCoord) is taken to be known.
ConfirmOTP ==
  /\ NoDialog
  /\ otpModalVisible
  /\ IF \/ ride = NoRide
        \/ ride.otp = ""
        \/ Len(enteredOtp) # 4
        \/ otpVerifying
     THEN UNCHANGED <<enteredOtp, otpVerifying, otpModalVisible,
                      tripStartTimer, otpMatchedFor>>
     ELSE IF ~OtpAccepted(ride, enteredOtp)
     THEN /\ enteredOtp' = ""
          /\ UNCHANGED <<otpVerifying, otpModalVisible, tripStartTimer,
                         otpMatchedFor>>
     ELSE /\ otpVerifying' = TRUE
          /\ otpModalVisible' = FALSE
          /\ enteredOtp' = ""
          /\ tripStartTimer' = [pending |-> TRUE, c |-> CurrentClosure]
          /\ otpMatchedFor' = otpMatchedFor \cup {ride.rideId}
  /\ emitted' = {}
  /\ UNCHANGED <<ride, rideStatus, isDriverOnline, socketConnected,
                 alertClosure, alert>>
  /\ UnchangedAccept /\ UnchangedBilling /\ UnchangedStore

\* emitTripStartEvents, for the ride the confirmOTP render saw
TripStartMessages(c) ==
  IF socketConnected
  THEN {Message("rideStarted", c.ride.rideId,
                {"rideId", "driverId", "startLocation"}),
        Message("otpVerified", c.ride.rideId,
                {"rideId", "driverId", "timestamp", "driverLocation"}),
        Message("driverStartedRide", c.ride.rideId,
                {"rideId", "driverId", "driverLocation", "otpVerified",
                 "timestamp"}),
        Message("verifyRideOTP", c.ride.rideId,
                {"rideId", "driverId", "otp", "verificationLocation"})}
  ELSE {}

\* proceedWithTripStartSafe, run by the 100 ms timer of confirmOTP
ProceedWithTripStartSafe ==
  /\ tripStartTimer.pending
  /\ tripStartTimer' = NoTimer
  /\ otpVerifying' = FALSE
  /\ rideStatus' = "started"
  /\ emitted' = {UpdateRideStatusCall("started", tripStartTimer.c.ride.rideId)}
                   \cup TripStartMessages(tripStartTimer.c)
  /\ rideState' = SaveEffect(ride, rideStatus', SaveRideState(tripStartTimer.c))
  /\ UNCHANGED <<ride, isDriverOnline, socketConnected, alertClosure, alert,
                 otpModalVisible, enteredOtp, otpMatchedFor, authToken,
                 restoreInFlight, lastRestore, offerCount>>
  /\ UnchangedAccept /\ UnchangedBilling

(***************************************************************************)
(* DriverScreen: completion and billing.                                   *)
(***************************************************************************)
\* completeRide: the 'Complete Ride' confirmation dialog; its buttons keep
\* the ride of this render
CompleteRide ==
  /\ NoDialog
  /\ rideStatus = "started"
  /\ ride # NoRide
  /\ alert' = [kind |-> "confirm", rideId |-> ride.rideId]
  /\ emitted' = {}
  /\ UNCHANGED <<ride, rideStatus, isDriverOnline, socketConnected,
                 alertClosure>>
  /\ UnchangedAccept /\ UnchangedOtp /\ UnchangedBilling /\ UnchangedStore

\* socket.emit("driverCompletedRide", {rideId, driverId, actualDrop, timestamp})
DriverCompletedRideMessage(r) ==
  Message("driverCompletedRide", r,
          {"rideId", "driverId", "actualDrop", "timestamp"})

\* POST /rides/complete-with-calculation {rideId, driverId,
\* completedLatitude, completedLongitude}
CompleteWithCalculationRequest(r) ==
  Message("completeWithCalculation", r,
          {"rideId", "driverId", "completedLatitude", "completedLongitude"})

\* what submitRideCompletion sends for ride r
CompletionMessages(r) ==
  {UpdateRideStatusCall("online", NoId), CompleteWithCalculationRequest(r)}
     \cup (IF socketConnected THEN {DriverCompletedRideMessage(r)} ELSE {})

NoCompletion == [pending |-> FALSE, rideId |-> NoId]

\* submitRideCompletion up to its await, called by 'Complete' of the
\* confirmation dialog or 'Retry' of the error dialog
SubmitRideCompletion ==
  /\ alert.kind \in {"confirm", "error"}
  /\ ~completionInFlight.pending
  /\ alert' = NoAlert
  /\ rideStatus' = "completed"
  /\ emitted' = CompletionMessages(alert.rideId)
  /\ completionInFlight' = [pending |-> TRUE, rideId |-> alert.rideId]
  /\ UNCHANGED <<ride, isDriverOnline, socketConnected, alertClosure,
                 showBillModal, billDetails, backendBills>>
  /\ UnchangedAccept /\ UnchangedOtp /\ UnchangedStore

\* 'Cancel' of either dialog; on the error dialog it reverts the status
CompletionAlertCancel ==
  /\ alert.kind \in {"confirm", "error"}
  /\ alert' = NoAlert
  /\ rideStatus' = IF alert.kind = "error" THEN "started" ELSE rideStatus
  /\ rideState' = SaveEffect(ride, rideStatus', rideState)
  /\ emitted' = {}
  /\ UNCHANGED <<ride, isDriverOnline, socketConnected, alertClosure,
                 authToken, restoreInFlight, lastRestore, offerCount>>
  /\ UnchangedAccept /\ UnchangedOtp /\ UnchangedBilling

\* billData with a charge computed on the device from the distance, at 15
\* per km
BillDataLocalFare(b) == [fare |-> b.distance * 15, distance |-> b.distance]

\* billData of submitRideCompletion / handleBillAlert: distance and charge
\* are the distance and fare of the backend's answer b
BillData(b) == [fare |-> b.fare, distance |-> b.distance]

\* submitRideCompletion after the HTTP answer: result.success with
\* result.data = b, or a failure
CompletionResult(ok, b) ==
  /\ completionInFlight.pending
  /\ completionInFlight' = NoCompletion
  /\ IF ok
     THEN /\ backendBills' = backendBills \cup {b}
          /\ billDetails' = BillData(b)
          /\ showBillModal' = TRUE
          /\ UNCHANGED alert
     ELSE /\ alert' = [kind |-> "error", rideId |-> completionInFlight.rideId]
          /\ UNCHANGED <<backendBills, billDetails, showBillModal>>
  /\ emitted' = {}
  /\ UNCHANGED <<ride, rideStatus, isDriverOnline, socketConnected,
                 alertClosure>>
  /\ UnchangedAccept /\ UnchangedOtp /\ UnchangedStore

\* handleBillAlert: the backend pushes bill b for ride r
HandleBillAlert(r, b) ==
  /\ backendBills' = backendBills \cup {b}
  /\ IF ride # NoRide /\ ride.rideId = r
     THEN /\ billDetails' = BillData(b)
          /\ showBillModal' = TRUE
          /\ rideStatus' = "completed"
     ELSE UNCHANGED <<billDetails, showBillModal, rideStatus>>
  /\ emitted' = {}
  /\ UNCHANGED <<ride, isDriverOnline, socketConnected, alertClosure, alert,
                 completionInFlight>>
  /\ UnchangedAccept /\ UnchangedOtp /\ UnchangedStore

\* handleBillModalClose, the bill modal's button
HandleBillModalClose ==
  /\ NoDialog
  /\ showBillModal
  /\ ride' = NoRide
  /\ rideStatus' = "idle"
  /\ otpVerifying' = FALSE
  /\ acceptButtonDisabled' = FALSE
  /\ rideState' = NoSnapshot
  /\ showBillModal' = FALSE
  /\ emitted' = {}
  /\ UNCHANGED <<isDriverOnline, socketConnected, alertClosure, alert,
                 isAccepting, pendingAcceptRideId, isLoading, acceptInFlight,
                 acceptWaitConnect, otpModalVisible, enteredOtp,
                 tripStartTimer, otpMatchedFor, completionInFlight,
                 billDetails, backendBills, authToken, restoreInFlight,
                 lastRestore, offerCount>>

(***************************************************************************)
(* DriverScreen: crash / resume recovery.                                  *)
(***************************************************************************)
NoRestore == [pending |-> FALSE, snap |-> NoSnapshot, token |-> FALSE]

\* restoreRideState up to its reads of 'rideState' and 'authToken'; called
\* at cold start (loadDriverInfo) and on every resume from the background
RestoreBegin ==
  /\ ~restoreInFlight.pending
  /\ restoreInFlight' = [pending |-> TRUE, snap |-> rideState, token |-> authToken]
  /\ emitted' = {}
  /\ UNCHANGED <<ride, rideStatus, isDriverOnline, socketConnected,
                 alertClosure, alert, rideState, authToken, lastRestore, offerCount>>
  /\ UnchangedAccept /\ UnchangedOtp /\ UnchangedBilling

\* what the verification request of restoreRideState may come back with:
\* a status that is not invalid, an invalid status (cancelled, completed,
\* expired, rejected), 404, another error status, or no answer at all
BackendAnswers == {"valid", "invalid", "notFound", "serverError", "unreachable"}

\* restoreRideState that gives up the snapshot whenever the backend did not
\* answer with a status
RestoreOutcomeStrict(snap, token, answer) ==
  IF snap = NoSnapshot THEN "empty"
  ELSE IF snap.rideStatus = "completed" THEN "completedSnapshot"
  ELSE IF ~(snap.ride # NoRide /\ snap.rideStatus \in ActiveStatuses) THEN "inactive"
  ELSE IF ~token THEN "noToken"
  ELSE IF answer \in {"serverError", "unreachable"} THEN "invalid"
  ELSE answer

\* how restoreRideState ends for the snapshot and token it read, when the
\* backend answers with answer
RestoreOutcome(snap, token, answer) ==
  IF snap = NoSnapshot THEN "empty"
  ELSE IF snap.rideStatus = "completed" THEN "completedSnapshot"
  ELSE IF ~(snap.ride # NoRide /\ snap.rideStatus \in ActiveStatuses) THEN "inactive"
  ELSE IF ~token THEN "noToken"
  ELSE answer

\* outcomes after which restoreRideState calls clearRideState
ClearingOutcomes == {"completedSnapshot", "invalid", "notFound"}
\* outcomes after which restoreRideState returns without touching anything
IgnoringOutcomes == {"empty", "inactive"}

\* whether restoreRideState asks the backend about the snapshot it read
VerificationAsked(snap, token) ==
  /\ snap # NoSnapshot
  /\ snap.rideStatus # "completed"
  /\ snap.ride # NoRide /\ snap.rideStatus \in ActiveStatuses
  /\ token

\* the rest of restoreRideState; answer is the backend's answer, or
\* "notAsked" when the backend is not asked
RestoreApply(answer) ==
  /\ restoreInFlight.pending
  /\ (answer = "notAsked") <=>
        ~VerificationAsked(restoreInFlight.snap, restoreInFlight.token)
  /\ LET snap == restoreInFlight.snap
         outcome == RestoreOutcome(snap, restoreInFlight.token, answer)
     IN  /\ lastRestore' = answer
         /\ IF outcome \in ClearingOutcomes
            THEN /\ rideState' = NoSnapshot
                 /\ UNCHANGED <<ride, rideStatus>>
            ELSE IF outcome \in IgnoringOutcomes
            THEN UNCHANGED <<ride, rideStatus, rideState>>
            ELSE /\ ride' = snap.ride
                 /\ rideStatus' = snap.rideStatus
                 /\ rideState' = SaveEffect(ride', rideStatus', rideState)
  /\ restoreInFlight' = NoRestore
  /\ emitted' = {}
  /\ UNCHANGED <<isDriverOnline, socketConnected, alertClosure, alert,
                 authToken, offerCount>>
  /\ UnchangedAccept /\ UnchangedOtp /\ UnchangedBilling

\* the process is killed and the screen is mounted again: every useState is
\* back at its initial value, AsyncStorage is kept
ProcessKilled ==
  /\ ride' = NoRide
  /\ rideStatus' = "idle"
  /\ isDriverOnline' = FALSE
  /\ socketConnected' = FALSE
  /\ isAccepting' = FALSE
  /\ acceptButtonDisabled' = FALSE
  /\ pendingAcceptRideId' = NoId
  /\ isLoading' = FALSE
  /\ alertClosure' = InitialClosure
  /\ alert' = NoAlert
  /\ acceptInFlight' = <<>>
  /\ acceptWaitConnect' = {}
  /\ otpModalVisible' = FALSE
  /\ enteredOtp' = ""
  /\ otpVerifying' = FALSE
  /\ tripStartTimer' = NoTimer
  /\ completionInFlight' = NoCompletion
  /\ showBillModal' = FALSE
  /\ billDetails' = InitialBill
  /\ restoreInFlight' = NoRestore
  /\ emitted' = {}
  /\ lastRestore' = "none"
  /\ UNCHANGED <<otpMatchedFor, backendBills, rideState, authToken,
                 offerCount>>

(***************************************************************************)
(* BackgroundLocationService: values, intents and the durable store.       *)
(***************************************************************************)
\* Java null, and a key that is absent from SharedPreferences
NULL == "null"

MAX_RECONNECT_ATTEMPTS == 20
\* automatic connects followed after the last connection or explicit start
MaxAutoConnects == MAX_RECONNECT_ATTEMPTS + 2

\* what NativeLocationService.start passes: it refuses an empty driverId or
\* socketUrl before it calls the bridge
VehicleTypes == {"taxi", "bike"}
SocketUrls == {"wss://backend"}
\* what DriverScreen passes to updateRideStatus: ride?.rideId || ""
ServiceRideIds == {"", "r1"}
ServiceStatuses == {"online", "accepted", "started"}

\* the fields of a service instance that onStartCommand has not reached
NoFields == [driverId |-> NULL, vehicleType |-> NULL, socketUrl |-> NULL,
             rideId |-> NULL, rideStatus |-> NULL]

\* the preferences of a fresh installation
NoPrefs == [wasOnline |-> FALSE, driverId |-> NULL, vehicleType |-> NULL,
            socketUrl |-> NULL, rideId |-> NULL, rideStatus |-> NULL]

\* the extras of the intent of LocationServiceModule.startService
StartIntent(d, v, u) ==
  [driverId |-> d, vehicleType |-> v, socketUrl |-> u, rideId |-> NULL,
   rideStatus |-> "online"]

\* the extras of the intent of LocationServiceModule.updateRideStatus when
\* the service is not bound: rideStatus and rideId only
UpdateIntent(status, r) ==
  [driverId |-> NULL, vehicleType |-> NULL, socketUrl |-> NULL, rideId |-> r,
   rideStatus |-> status]

\* the extras of the intent of BootCompleteReceiver.startLocationService
BootIntent(p) ==
  [driverId |-> p.driverId, vehicleType |-> p.vehicleType,
   socketUrl |-> p.socketUrl, rideId |-> p.rideId,
   rideStatus |-> IF p.rideStatus = NULL THEN "online" ELSE p.rideStatus]

\* onStartCommand: every field is taken from the intent, present or not
FieldsFromIntent(intent) ==
  [intent EXCEPT !.rideStatus = IF @ = NULL THEN "online" ELSE @]

\* putString(key, null) removes the key
SaveDriverState(f) ==
  [wasOnline |-> TRUE, driverId |-> f.driverId, vehicleType |-> f.vehicleType,
   socketUrl |-> f.socketUrl, rideId |-> f.rideId, rideStatus |-> f.rideStatus]

RestoreDriverState(p) ==
  [driverId |-> p.driverId, vehicleType |-> p.vehicleType,
   socketUrl |-> p.socketUrl, rideId |-> p.rideId,
   rideStatus |-> IF p.rideStatus = NULL THEN "online" ELSE p.rideStatus]

ClearDriverState(p) ==
  [p EXCEPT !.wasOnline = FALSE, !.rideId = NULL, !.rideStatus = NULL]

\* BootCompleteReceiver.wasDriverOnline
WasDriverOnline(p) == p.wasOnline /\ p.driverId # NULL /\ p.driverId # ""

\* the reconnect counter after scheduleReconnect
AttemptsKeptAtMaximum(n) ==
  IF n >= MAX_RECONNECT_ATTEMPTS THEN n ELSE n + 1

AttemptsAfterSchedule(n) ==
  IF n >= MAX_RECONNECT_ATTEMPTS THEN 0 ELSE n + 1

\* the callbacks pending after scheduleReconnect
TimersAfterSchedule(n, timers) ==
  IF n >= MAX_RECONNECT_ATTEMPTS THEN timers ELSE timers + 1

\* initializeSocket: a missing or empty url leaves the socket as it is
SocketAfterInitialize(url, s) ==
  IF url = NULL \/ url = "" THEN s ELSE "connecting"

(***************************************************************************)
(* BackgroundLocationService: lifecycle.  A service instance that does not *)
(* exist has the field values of a new instance.                           *)
(***************************************************************************)
ServiceGone ==
  /\ serviceAlive' = FALSE
  /\ serviceFields' = NoFields
  /\ isRunning' = FALSE
  /\ socket' = "null"
  /\ isSocketConnected' = FALSE
  /\ reconnectAttempts' = 0
  /\ reconnectTimers' = 0
  /\ heartbeatChains' = 0
  /\ autoConnects' = 0

\* onDestroy: isRunning = false, stopHeartbeat, disconnectSocket,
\* clearDriverState; p is the store it finds
OnDestroy(p) ==
  /\ ServiceGone
  /\ prefs' = ClearDriverState(p)

\* onStartCommand after the fields are set to f and the store is p: it runs
\* (initializeSocket, startHeartbeat, START_STICKY) or stops itself
OnStartCommand(f, p) ==
  IF f.driverId # NULL /\ f.socketUrl # NULL
  THEN /\ serviceAlive' = TRUE
       /\ serviceFields' = f
       /\ isRunning' = TRUE
       /\ socket' = SocketAfterInitialize(f.socketUrl, socket)
       /\ heartbeatChains' = heartbeatChains + 1
       /\ prefs' = p
       /\ autoConnects' = 0
       /\ UNCHANGED <<isSocketConnected, reconnectAttempts, reconnectTimers>>
  ELSE OnDestroy(p)

\* LocationServiceModule.startService: the intent reaches onStartCommand and
\* the module binds to the service
StartService(d, v, u) ==
  /\ ~booting
  /\ heartbeatChains < MaxHeartbeatChains
  /\ LET f == FieldsFromIntent(StartIntent(d, v, u))
     IN  OnStartCommand(f, SaveDriverState(f))
  /\ isBound' = TRUE
  /\ stickyPending' = FALSE
  /\ driverOnline' = TRUE
  /\ UNCHANGED booting
  /\ UnchangedOutsideService

\* LocationServiceModule.stopService: unbind, STOP_SERVICE, stopService
StopService ==
  /\ ~booting
  /\ OnDestroy(prefs)
  /\ isBound' = FALSE
  /\ stickyPending' = FALSE
  /\ driverOnline' = FALSE
  /\ UNCHANGED booting
  /\ UnchangedOutsideService

\* LocationServiceModule.updateRideStatus: the bound service is updated in
\* place; without a binding the service is started with the two extras
UpdateRideStatus(status, r) ==
  /\ ~booting
  /\ IF isBound
     THEN LET f == [serviceFields EXCEPT !.rideStatus = status, !.rideId = r]
          IN  /\ serviceFields' = f
              /\ prefs' = SaveDriverState(f)
              /\ UNCHANGED <<serviceAlive, isRunning, socket,
                             isSocketConnected, reconnectAttempts,
                             reconnectTimers, heartbeatChains, autoConnects,
                             stickyPending>>
     ELSE LET f == FieldsFromIntent(UpdateIntent(status, r))
          IN  /\ OnStartCommand(f, SaveDriverState(f))
              /\ stickyPending' = FALSE
  /\ UNCHANGED <<isBound, booting, driverOnline>>
  /\ UnchangedOutsideService

\* the system kills the process: no callback runs, the store is kept and a
\* service that returned START_STICKY is owed a restart
ServiceProcessKilled ==
  /\ ~booting
  /\ serviceAlive
  /\ ServiceGone
  /\ isBound' = FALSE
  /\ stickyPending' = isRunning
  /\ UNCHANGED <<prefs, booting, driverOnline>>
  /\ UnchangedOutsideService

\* the system restarts the service: onCreate, onStartCommand(null)
StickyRestart ==
  /\ ~booting
  /\ stickyPending
  /\ OnStartCommand(RestoreDriverState(prefs), prefs)
  /\ stickyPending' = FALSE
  /\ UNCHANGED <<isBound, booting, driverOnline>>
  /\ UnchangedOutsideService

\* the device goes down; BOOT_COMPLETED is pending
DeviceReboot ==
  /\ ~booting
  /\ ServiceGone
  /\ isBound' = FALSE
  /\ stickyPending' = FALSE
  /\ booting' = TRUE
  /\ UNCHANGED <<prefs, driverOnline>>
  /\ UnchangedOutsideService

\* BootCompleteReceiver.onReceive, and the service it starts
BootCompleted ==
  /\ booting
  /\ booting' = FALSE
  /\ IF WasDriverOnline(prefs) /\ prefs.driverId # NULL /\ prefs.socketUrl # NULL
     THEN LET f == FieldsFromIntent(BootIntent(prefs))
          IN  OnStartCommand(f, SaveDriverState(f))
     ELSE UNCHANGED <<serviceAlive, serviceFields, isRunning, socket,
                      isSocketConnected, reconnectAttempts, reconnectTimers,
                      heartbeatChains, autoConnects, prefs>>
  /\ UNCHANGED <<isBound, stickyPending, driverOnline>>
  /\ UnchangedOutsideService

(***************************************************************************)
(* BackgroundLocationService: socket events, reconnect timer, heartbeat.   *)
(***************************************************************************)
\* socket.connect(): a socket that is opening or open stays as it is
SocketAfterConnect(s) == IF s = "idle" THEN "connecting" ELSE s

\* scheduleReconnect
ScheduleReconnect ==
  /\ reconnectAttempts' = AttemptsAfterSchedule(reconnectAttempts)
  /\ reconnectTimers' = TimersAfterSchedule(reconnectAttempts, reconnectTimers)

\* the bound on the pending callbacks leaves room for one more
TimerRoom ==
  reconnectAttempts >= MAX_RECONNECT_ATTEMPTS \/ reconnectTimers < MaxReconnectTimers

UnchangedLifecycle == UNCHANGED <<serviceAlive, serviceFields, isRunning,
                                  heartbeatChains, isBound, prefs,
                                  stickyPending, booting, driverOnline>>

\* Socket.EVENT_CONNECT
SocketEventConnect ==
  /\ socket = "connecting"
  /\ socket' = "connected"
  /\ isSocketConnected' = TRUE
  /\ reconnectAttempts' = 0
  /\ autoConnects' = 0
  /\ UNCHANGED reconnectTimers
  /\ UnchangedLifecycle /\ UnchangedOutsideService

\* Socket.EVENT_CONNECT_ERROR
SocketEventConnectError ==
  /\ socket = "connecting"
  /\ TimerRoom
  /\ socket' = "idle"
  /\ isSocketConnected' = FALSE
  /\ ScheduleReconnect
  /\ UNCHANGED autoConnects
  /\ UnchangedLifecycle /\ UnchangedOutsideService

\* Socket.EVENT_DISCONNECT
SocketEventDisconnect ==
  /\ socket = "connected"
  /\ TimerRoom
  /\ socket' = "idle"
  /\ isSocketConnected' = FALSE
  /\ ScheduleReconnect
  /\ UNCHANGED autoConnects
  /\ UnchangedLifecycle /\ UnchangedOutsideService

\* an automatic connect() is counted when it opens the socket
CountAutoConnect ==
  autoConnects' = IF socket' # socket THEN autoConnects + 1 ELSE autoConnects

\* the callback that scheduleReconnect posted
ReconnectTimerFires ==
  /\ reconnectTimers > 0
  /\ autoConnects < MaxAutoConnects
  /\ reconnectTimers' = reconnectTimers - 1
  /\ socket' = IF ~isSocketConnected /\ isRunning
               THEN IF socket # "null"
                    THEN SocketAfterConnect(socket)
                    ELSE SocketAfterInitialize(serviceFields.socketUrl, socket)
               ELSE socket
  /\ CountAutoConnect
  /\ UNCHANGED <<isSocketConnected, reconnectAttempts>>
  /\ UnchangedLifecycle /\ UnchangedOutsideService

\* heartbeatRunnable.run: sendHeartbeat and the next run is posted
HeartbeatRun ==
  /\ heartbeatChains > 0
  /\ isRunning
  /\ autoConnects < MaxAutoConnects
  /\ socket' = IF ~isSocketConnected /\ socket # "null"
               THEN SocketAfterConnect(socket)
               ELSE socket
  /\ CountAutoConnect
  /\ UNCHANGED <<isSocketConnected, reconnectAttempts, reconnectTimers>>
  /\ UnchangedLifecycle /\ UnchangedOutsideService

ServiceInit ==
  /\ serviceAlive = FALSE
  /\ serviceFields = NoFields
  /\ isRunning = FALSE
  /\ socket = "null"
  /\ isSocketConnected = FALSE
  /\ reconnectAttempts = 0
  /\ reconnectTimers = 0
  /\ heartbeatChains = 0
  /\ isBound = FALSE
  /\ prefs = NoPrefs
  /\ stickyPending = FALSE
  /\ booting = FALSE
  /\ driverOnline = FALSE
  /\ autoConnects = 0

(***************************************************************************)
(* DriverScreen: the heartbeat effect, while the driver is online.         *)
(***************************************************************************)
maxReconnectAttempts == 10
\* failed reconnectSocket() calls followed in a row
MaxTicksFailed == maxReconnectAttempts + 2

\* one run of the setInterval callback; ok is how reconnectSocket() ended
\* when the callback looks at the socket again after 2.5 s
HeartbeatIntervalTick(ok) ==
  /\ IF heartbeatSocket = "down"
     THEN IF socketReconnectAttempts + 1 <= maxReconnectAttempts
          THEN /\ ticksFailedInARow < MaxTicksFailed
               /\ heartbeatSocket' = IF ok THEN "up" ELSE "down"
               /\ socketReconnectAttempts' =
                    IF ok THEN 0 ELSE socketReconnectAttempts + 1
               /\ ticksFailedInARow' = IF ok THEN 0 ELSE ticksFailedInARow + 1
          ELSE /\ socketReconnectAttempts' = 0
               /\ UNCHANGED <<heartbeatSocket, ticksFailedInARow>>
     ELSE /\ socketReconnectAttempts' = 0
          /\ UNCHANGED <<heartbeatSocket, ticksFailedInARow>>
  /\ UnchangedOutsideHeartbeat

\* the connection of the JS socket is lost
HeartbeatSocketDrops ==
  /\ heartbeatSocket = "up"
  /\ heartbeatSocket' = "down"
  /\ UNCHANGED <<socketReconnectAttempts, ticksFailedInARow>>
  /\ UnchangedOutsideHeartbeat

\* socket.io reconnects by itself (reconnection: true, attempts: Infinity)
SocketIoReconnects ==
  /\ heartbeatSocket = "down"
  /\ heartbeatSocket' = "up"
  /\ ticksFailedInARow' = 0
  /\ UNCHANGED socketReconnectAttempts
  /\ UnchangedOutsideHeartbeat

HeartbeatInit ==
  /\ socketReconnectAttempts = 0
  /\ heartbeatSocket = "up"
  /\ ticksFailedInARow = 0

(***************************************************************************)
(* LocationTracker (LocationUtils.ts).  The fixes lie on one meridian,     *)
(* where the haversine distance of calculateDistance is the arc between    *)
(* the two latitudes; a latitude is given as that arc in metres from the   *)
(* first one.  Smoothed latitudes and distances are in sixths of a metre,  *)
(* which keeps the mean of one, two or three latitudes exact.              *)
(***************************************************************************)
minDistanceThreshold == 5
maxSpeedThreshold == 50
maxAccuracyThreshold == 40
smoothingBufferSize == 3

FixLatitudes == {0, 3, 10, 300}
\* milliseconds
FixTimestamps == {0, 200, 60000}
FixAccuracies == {10, 41}

\* the arguments of processLocation: valid is isValidLocation(newLat, newLng),
\* hasAccuracy is false for an accuracy that is undefined or null
Fixes ==
  {f \in [valid : BOOLEAN, latitude : FixLatitudes, timestamp : FixTimestamps,
          hasAccuracy : BOOLEAN, accuracy : FixAccuracies] :
     /\ ~f.hasAccuracy => f.accuracy = 10
     /\ ~f.valid => (f.latitude = 0 /\ f.timestamp = 0 /\ ~f.hasAccuracy)}

NoFix == [valid |-> FALSE, latitude |-> 0, timestamp |-> 0,
          hasAccuracy |-> FALSE, accuracy |-> 10]

\* lastValidLocation = null
NoLocation == [set |-> FALSE, latitude |-> 0, timestamp |-> 0]

\* processLocation returned null
Rejected == [accepted |-> FALSE, distance |-> 0, latitude |-> 0]

Sixths(metres) == metres * 6

RECURSIVE SumOf(_)
SumOf(s) == IF s = <<>> THEN 0 ELSE Head(s) + SumOf(Tail(s))

\* locationBuffer.push(..) and the shift that keeps smoothingBufferSize points
PushFix(buffer, f) ==
  LET pushed == Append(buffer, f.latitude)
  IN  IF Len(pushed) > smoothingBufferSize THEN Tail(pushed) ELSE pushed

\* the mean of the buffered latitudes, in sixths of a metre
Smoothed(buffer) == Sixths(SumOf(buffer)) \div Len(buffer)

\* calculateDistance between two latitudes of the meridian
CalculateDistance(a, b) == IF a >= b THEN a - b ELSE b - a

PoorAccuracy(f) == f.hasAccuracy /\ f.accuracy > maxAccuracyThreshold

\* FILTER 1 without its threshold
JitterKept(distance) == FALSE

\* FILTER 1: distance < minDistanceThreshold
Jitter(distance) == distance < Sixths(minDistanceThreshold)

\* FILTER 2: speed = timeDiff > 0 ? distance / timeDiff : 0, timeDiff in
\* seconds; speed > maxSpeedThreshold
ImpossibleSpeed(distance, timeDiffMs) ==
  /\ timeDiffMs > 0
  /\ distance * 1000 > Sixths(maxSpeedThreshold) * timeDiffMs

\* processLocation
ProcessLocation(f) ==
  /\ fixCount < MaxFixes
  /\ fixCount' = fixCount + 1
  /\ lastFix' = f
  /\ IF ~f.valid \/ PoorAccuracy(f)
     THEN /\ trackingResult' = Rejected
          /\ UNCHANGED <<locationBuffer, lastValidLocation, totalDistance>>
     ELSE LET buffer == PushFix(locationBuffer, f)
              smoothedLat == Smoothed(buffer)
              distance == CalculateDistance(lastValidLocation.latitude,
                                            smoothedLat)
              timeDiff == f.timestamp - lastValidLocation.timestamp
          IN  /\ locationBuffer' = buffer
              /\ IF ~lastValidLocation.set
                 THEN /\ lastValidLocation' =
                           [set |-> TRUE, latitude |-> smoothedLat,
                            timestamp |-> f.timestamp]
                      /\ trackingResult' =
                           [accepted |-> TRUE, distance |-> 0,
                            latitude |-> smoothedLat]
                      /\ UNCHANGED totalDistance
                 ELSE IF Jitter(distance) \/ ImpossibleSpeed(distance, timeDiff)
                 THEN /\ trackingResult' = Rejected
                      /\ UNCHANGED <<lastValidLocation, totalDistance>>
                 ELSE /\ totalDistance' = totalDistance + distance
                      /\ lastValidLocation' =
                           [set |-> TRUE, latitude |-> smoothedLat,
                            timestamp |-> f.timestamp]
                      /\ trackingResult' =
                           [accepted |-> TRUE, distance |-> distance,
                            latitude |-> smoothedLat]
  /\ UnchangedOutsideTracker

\* reset(), between two rides
ResetTracker ==
  /\ lastValidLocation' = NoLocation
  /\ totalDistance' = 0
  /\ locationBuffer' = <<>>
  /\ UNCHANGED <<trackingResult, lastFix, fixCount>>
  /\ UnchangedOutsideTracker

TrackerInit ==
  /\ locationBuffer = <<>>
  /\ lastValidLocation = NoLocation
  /\ totalDistance = 0
  /\ trackingResult = Rejected
  /\ lastFix = NoFix
  /\ fixCount = 0

(***************************************************************************)
(* Route geometry (RouteService.ts and SmoothPolyline.ts).  The route and  *)
(* the driver lie on one meridian: a coordinate is its latitude, the       *)
(* haversine distance of two coordinates is the arc between them, and the  *)
(* projection of a point on a segment is the point itself or an end of the *)
(* segment.                                                                *)
(***************************************************************************)
Infinity == 1000000

\* searchRadius of findNearestPointOnRoute (default), and the two windows
DefaultSearchRadius == 100
PolylineSearchAhead == 50
SearchBehind == 5

RouteLatitudes == {0, 10, 20}
DriverLatitudes == {0, 4, 10, 17}
SearchRadii == {1, DefaultSearchRadius}

RECURSIVE RoutesOfLength(_)
RoutesOfLength(n) ==
  IF n = 0 THEN {<<>>}
  ELSE {Append(r, p) : r \in RoutesOfLength(n - 1), p \in RouteLatitudes}

Routes == UNION {RoutesOfLength(n) : n \in 0..MaxRouteLen}

Max(a, b) == IF a >= b THEN a ELSE b
Min(a, b) == IF a <= b THEN a ELSE b

\* route[i] of the code, i from 0
At(route, i) == route[i + 1]

\* route.slice(from, to)
Slice(route, from, to) ==
  LET last == Min(to, Len(route))
  IN  IF from >= last THEN <<>>
      ELSE [k \in 1..(last - from) |-> route[from + k]]

\* getDistanceInMeters / getDistance
GetDistance(a, b) == IF a >= b THEN a - b ELSE b - a

\* for (i = from; i < to; i++) if (distance < minDistance) { .. }
RECURSIVE Scan(_, _, _, _, _)
Scan(location, route, i, to, best) ==
  IF i >= to THEN best
  ELSE LET distance == GetDistance(location, At(route, i))
       IN  Scan(location, route, i + 1, to,
                IF distance < best.distance
                THEN [index |-> i, distance |-> distance]
                ELSE best)

\* a window that starts at the hint
SearchStartAtHint(lastKnownIndex) == lastKnownIndex

\* Math.max(0, lastKnownIndex - 5)
SearchStart(lastKnownIndex) == Max(0, lastKnownIndex - SearchBehind)

\* the search of both files; ahead is searchRadius, or 50 in SmoothPolyline
NearestPoint(location, route, lastKnownIndex, ahead) ==
  IF Len(route) = 0 THEN [index |-> 0, distance |-> Infinity]
  ELSE LET searchStart == SearchStart(lastKnownIndex)
           searchEnd == Min(Len(route), lastKnownIndex + ahead)
           window == Scan(location, route, searchStart, searchEnd,
                          [index |-> lastKnownIndex, distance |-> Infinity])
       IN  IF window.index >= searchEnd - 1 /\ searchEnd < Len(route)
           THEN Scan(location, route, searchEnd, Len(route), window)
           ELSE window

FindNearestPointOnRoute(driver, route, lastKnownIndex, radius) ==
  NearestPoint(driver, route, lastKnownIndex, radius)

FindNearestPointIndex(location, route, startIndex) ==
  NearestPoint(location, route, startIndex, PolylineSearchAhead)

\* projectPointOnSegment with dx = 0: t = clamp((point - segStart) / dy)
ProjectPointOnSegment(point, segStart, segEnd) ==
  LET dy == segEnd - segStart
      num == (point - segStart) * dy
      den == dy * dy
  IN  IF dy = 0 THEN segStart
      ELSE IF num <= 0 THEN segStart
      ELSE IF num >= den THEN segEnd
      ELSE point

GetInterpolatedDriverPosition(driver, route, nearestIndex) ==
  IF Len(route) < 2 \/ nearestIndex >= Len(route) THEN driver
  ELSE ProjectPointOnSegment(driver, At(route, nearestIndex),
                             At(route, Min(Len(route) - 1, nearestIndex + 1)))

\* the travelled segment without the interpolated position
TravelledToVertex(route, nearestIndex, position) ==
  Slice(route, 0, nearestIndex + 1)

\* [...fullRoute.slice(0, nearestIndex + 1), interpolatedPosition]
Travelled(route, nearestIndex, position) ==
  Append(Slice(route, 0, nearestIndex + 1), position)

\* [interpolatedPosition, ...fullRoute.slice(nearestIndex + 1)]
Remaining(route, nearestIndex, position) ==
  <<position>> \o Slice(route, nearestIndex + 1, Len(route))

\* splitRouteAtDriver of both files, after the search gave nearest
SplitAt(driver, route, nearest) ==
  IF Len(route) < 2
  THEN [travelled |-> <<>>, remaining |-> route, nearestIndex |-> 0]
  ELSE LET position ==
             GetInterpolatedDriverPosition(driver, route, nearest.index)
       IN  [travelled |-> Travelled(route, nearest.index, position),
            remaining |-> Remaining(route, nearest.index, position),
            nearestIndex |-> nearest.index]

\* RouteService.splitRouteAtDriver
SplitRouteAtDriver(driver, route, lastIndex) ==
  SplitAt(driver, route,
          FindNearestPointOnRoute(driver, route, lastIndex,
                                  DefaultSearchRadius))

\* SmoothPolyline.splitRouteAtDriver
SplitRouteAtDriverPolyline(driver, route, lastIndex) ==
  SplitAt(driver, route, FindNearestPointIndex(driver, route, lastIndex))

\* a result that is not computed yet
NoNearest == [done |-> FALSE, index |-> 0, distance |-> 0]
NoSegments == [done |-> FALSE, travelled |-> <<>>, remaining |-> <<>>,
               nearestIndex |-> 0]

Done(result) == [done |-> TRUE] @@ result

CallFindNearestPointOnRoute ==
  /\ ~nearestOnRoute.done
  /\ nearestOnRoute' = Done(FindNearestPointOnRoute(driverLocation, fullRoute,
                                 lastNearestIndex, searchRadius))
  /\ UNCHANGED <<fullRoute, driverLocation, lastNearestIndex, searchRadius,
                 nearestIndexed, routeSegments, polylineSegments>>
  /\ UnchangedOutsideRoute

CallFindNearestPointIndex ==
  /\ ~nearestIndexed.done
  /\ nearestIndexed' = Done(FindNearestPointIndex(driverLocation, fullRoute,
                                                  lastNearestIndex))
  /\ UNCHANGED <<fullRoute, driverLocation, lastNearestIndex, searchRadius,
                 nearestOnRoute, routeSegments, polylineSegments>>
  /\ UnchangedOutsideRoute

CallSplitRouteAtDriver ==
  /\ ~routeSegments.done
  /\ routeSegments' = Done(SplitRouteAtDriver(driverLocation, fullRoute,
                                              lastNearestIndex))
  /\ UNCHANGED <<fullRoute, driverLocation, lastNearestIndex, searchRadius,
                 nearestOnRoute, nearestIndexed, polylineSegments>>
  /\ UnchangedOutsideRoute

CallSplitRouteAtDriverPolyline ==
  /\ ~polylineSegments.done
  /\ polylineSegments' = Done(SplitRouteAtDriverPolyline(driverLocation,
                                   fullRoute, lastNearestIndex))
  /\ UNCHANGED <<fullRoute, driverLocation, lastNearestIndex, searchRadius,
                 nearestOnRoute, nearestIndexed, routeSegments>>
  /\ UnchangedOutsideRoute

NothingComputed ==
  /\ nearestOnRoute = NoNearest
  /\ nearestIndexed = NoNearest
  /\ routeSegments = NoSegments
  /\ polylineSegments = NoSegments

\* no route on the map
RouteAtRest ==
  /\ fullRoute = <<>>
  /\ driverLocation = 0
  /\ lastNearestIndex = 0
  /\ searchRadius = DefaultSearchRadius
  /\ NothingComputed

\* a route, a driver and a hint
RouteInputs ==
  /\ fullRoute \in Routes
  /\ driverLocation \in DriverLatitudes
  /\ lastNearestIndex \in 0..MaxHintIndex
  /\ searchRadius \in SearchRadii
  /\ NothingComputed

(***************************************************************************)
(* simplifyRoute (Douglas-Peucker).  Points lie on a small grid of         *)
(* latitude / longitude steps; one step is far above the tolerance and     *)
(* the grid is small enough for distances to order as in the plane.        *)
(***************************************************************************)
\* tolerance = 0.00005 of simplifyRoute, compared with distances in metres:
\* below every distance between two different grid positions
SimplifyTolerance == 0

SimplifyLatitudes == {0, 1, 2}
SimplifyLongitudes == {0, 1, 2}
SimplifyPoints ==
  [latitude : SimplifyLatitudes, longitude : SimplifyLongitudes]
SimplifyRoutes ==
  UNION {[1..n -> SimplifyPoints] : n \in 0..MaxSimplifyLen}

\* perpendicularDistance(point, lineStart, lineEnd), squared and, for a line
\* of two different points, times the squared length of the line (the same
\* factor for every point measured in one call of simplifyRoute); t is not
\* clamped, the distance is the one to the whole line
PerpendicularDistance(point, lineStart, lineEnd) ==
  LET dx == lineEnd.longitude - lineStart.longitude
      dy == lineEnd.latitude - lineStart.latitude
      px == point.longitude - lineStart.longitude
      py == point.latitude - lineStart.latitude
  IN  IF dx = 0 /\ dy = 0
      THEN px * px + py * py
      ELSE (px * dy - py * dx) * (px * dy - py * dx)

\* a comparison that a distance equal to the tolerance passes as well
ReachesTolerance(distance) == distance >= SimplifyTolerance

\* maxDistance > tolerance
ExceedsTolerance(distance) == distance > SimplifyTolerance

\* the loop of simplifyRoute over the inner points: maxDistance, and
\* maxIndex, the first index where it is reached (0 when it stays 0)
MaxDistance(route) ==
  LET inner == 1..(Len(route) - 2)
      d(i) == PerpendicularDistance(At(route, i), At(route, 0),
                                    At(route, Len(route) - 1))
      maxDistance == CHOOSE m \in {d(i) : i \in inner} \cup {0} :
                       \A i \in inner : d(i) <= m
  IN  [maxDistance |-> maxDistance,
       maxIndex |-> IF maxDistance = 0 THEN 0
                    ELSE CHOOSE i \in inner :
                           /\ d(i) = maxDistance
                           /\ \A j \in inner : d(j) = maxDistance => i <= j]

\* simplifyRoute(route) within depth nested calls: the simplified route, or
\* returned = FALSE when the calls nest deeper
RECURSIVE SimplifyWithin(_, _)
SimplifyWithin(route, depth) ==
  IF depth = 0 THEN [returned |-> FALSE, route |-> <<>>]
  ELSE IF Len(route) <= 2 THEN [returned |-> TRUE, route |-> route]
  ELSE LET found == MaxDistance(route)
       IN  IF ExceedsTolerance(found.maxDistance)
           THEN LET left == SimplifyWithin(
                              Slice(route, 0, found.maxIndex + 1), depth - 1)
                    right == SimplifyWithin(
                               Slice(route, found.maxIndex, Len(route)),
                               depth - 1)
                IN  [returned |-> left.returned /\ right.returned,
                     route |-> Slice(left.route, 0, Len(left.route) - 1)
                                 \o right.route]
           ELSE [returned |-> TRUE,
                 route |-> <<At(route, 0), At(route, Len(route) - 1)>>]

\* simplifyRoute of RouteService; each nested call works on a shorter route,
\* so the calls of a route that returns nest no deeper than its length
SimplifyRoute(route) == SimplifyWithin(route, Max(Len(route), 1))

\* simplifyRoute of SmoothPolyline, the same function over getDistance
SimplifyRoutePolyline(route) == SimplifyWithin(route, Max(Len(route), 1))

NoSimplified == [done |-> FALSE, returned |-> FALSE, route |-> <<>>]

CallSimplifyRoute ==
  /\ ~simplifiedRoute.done
  /\ simplifiedRoute' = Done(SimplifyRoute(simplifyInput))
  /\ UNCHANGED <<simplifyInput, simplifiedPolyline>>
  /\ UnchangedOutsideSimplify

CallSimplifyRoutePolyline ==
  /\ ~simplifiedPolyline.done
  /\ simplifiedPolyline' = Done(SimplifyRoutePolyline(simplifyInput))
  /\ UNCHANGED <<simplifyInput, simplifiedRoute>>
  /\ UnchangedOutsideSimplify

\* no route to simplify
SimplifyAtRest ==
  /\ simplifyInput = <<>>
  /\ simplifiedRoute = NoSimplified
  /\ simplifiedPolyline = NoSimplified

\* a route to simplify
SimplifyInputs ==
  /\ simplifyInput \in SimplifyRoutes
  /\ simplifiedRoute = NoSimplified
  /\ simplifiedPolyline = NoSimplified

(***************************************************************************)
(* DriverScreen: the route on the map and the off-route reaction.  A route *)
(* is known by the ride it was fetched for and by where it leads; the      *)
(* distance of a position from the route is an input, in metres.           *)
(***************************************************************************)
\* OFF_ROUTE_THRESHOLD of DriverScreen, the thresholdMeters of
\* isDriverOffRoute
OFF_ROUTE_THRESHOLD == 30
\* distances from the route a position may have
Deviations == {0, 30, 45}
\* fullRouteCoords = []
NoRoute == [target |-> "none", rideId |-> NoId]
\* the route fetched for ride r towards its pickup or its drop
RouteTo(target, r) == [target |-> target, rideId |-> r]
RoutePaths == {"fix", "polyline"}
NoInbound == [type |-> "none", rideId |-> NoId]
NoLocationEvent == [path |-> "none", distance |-> 0, significant |-> FALSE]

\* isDriverOffRoute(...).isOffRoute for a position at the given distance
IsDriverOffRoute(distance) == distance > OFF_ROUTE_THRESHOLD

\* rideStatus === "accepted" ? ride.pickup : ride.drop
TargetOf(status) == IF status = "accepted" THEN "pickup" ELSE "drop"

\* the guard "!offRouteReFetchInProgress.current" of both off-route paths,
\* without the flag
RefetchAllowedUnguarded(inProgress) == TRUE
\* the guard "!offRouteReFetchInProgress.current" of both off-route paths
RefetchAllowed(inProgress) == ~inProgress

\* getRouteWithDetails(location, target) called by one of the two paths
RecalcRequest(path, status, r) ==
  [path |-> path, target |-> TargetOf(status), rideId |-> r]

\* clearMapData without setFullRouteCoords([])
ClearMapDataKeepsRoute ==
  /\ nearestPointIndex' = 0
  /\ lastCoord' = 0
  /\ UNCHANGED fullRouteCoords
\* clearMapData: the route, the nearest index and the position-tracking
\* state of the map (travelledKm, lastCoord, distanceSinceOtp,
\* lastLocationBeforeOtp, otpVerificationLocation; lastCoord stands for
\* them).  tripStartLocation and locationHistory are written at the start
\* of a trip and read nowhere; clearMapData leaves them.
ClearMapData ==
  /\ fullRouteCoords' = NoRoute
  /\ nearestPointIndex' = 0
  /\ lastCoord' = 0

UnchangedMap == UNCHANGED <<fullRouteCoords, nearestPointIndex, lastCoord>>
UnchangedRefetch == UNCHANGED <<offRouteReFetchInProgress,
                                lastOffRouteCheckTime, recalcInFlight>>

\* the "cleanup map" effect run after a render: it calls clearMapData when
\* rideStatus became completed or idle, and again whenever clearMapData is
\* re-created (useCallback([location])) while rideStatus is one of the two
MapCleanupEffect(locationChanged) ==
  IF rideStatus' \in {"completed", "idle"}
       /\ (rideStatus' # rideStatus \/ locationChanged)
  THEN ClearMapData
  ELSE UnchangedMap

\* a handler A of the ride machine, followed by the effects of its render
NavigationRideStep(A) ==
  /\ A
  /\ MapCleanupEffect(FALSE)
  /\ UnchangedRefetch
  /\ UNCHANGED <<tripStartLocation, locationEvents, lastInbound,
               lastLocationEvent>>
  /\ UnchangedOutsideRideAndNavigation

\* handleRideCancelled for a rideCancelled message of ride r: clearMapData()
\* when r is the ride of the screen and the driver is not on the way
NavigationRideCancelled(r) ==
  /\ lastInbound' = [type |-> "rideCancelled", rideId |-> r]
  /\ IF ride # NoRide /\ ride.rideId = r
     THEN /\ HandleRideCancelled(r)
          /\ IF rideStatus = "onTheWay" THEN UnchangedMap ELSE ClearMapData
     ELSE /\ emitted' = {}
          /\ UNCHANGED <<ride, rideStatus, isDriverOnline, socketConnected,
                         alertClosure, alert>>
          /\ UnchangedAccept /\ UnchangedOtp /\ UnchangedBilling
          /\ UnchangedStore
          /\ UnchangedMap
  /\ UnchangedRefetch
  /\ UNCHANGED <<tripStartLocation, locationEvents, lastLocationEvent>>
  /\ UnchangedOutsideRideAndNavigation

\* handleRideAlreadyAccepted / handleRideTakenByDriver: clearMapData()
NavigationRideTaken(r, by) ==
  /\ HandleRideTaken(r, by)
  /\ ClearMapData
  /\ UnchangedRefetch
  /\ UNCHANGED <<tripStartLocation, locationEvents, lastInbound,
               lastLocationEvent>>
  /\ UnchangedOutsideRideAndNavigation

\* proceedWithTripStartSafe: setTripStartLocation(startPoint); the route of
\* the map is left as it is
NavigationTripStart ==
  /\ ProceedWithTripStartSafe
  /\ tripStartLocation' = 1
  /\ UnchangedMap
  /\ UnchangedRefetch
  /\ UNCHANGED <<locationEvents, lastInbound, lastLocationEvent>>
  /\ UnchangedOutsideRideAndNavigation

\* submitRideCompletion after the HTTP answer: clearMapData() on success
NavigationCompletionResult(ok, b) ==
  /\ CompletionResult(ok, b)
  /\ IF ok THEN ClearMapData ELSE UnchangedMap
  /\ UnchangedRefetch
  /\ UNCHANGED <<tripStartLocation, locationEvents, lastInbound,
               lastLocationEvent>>
  /\ UnchangedOutsideRideAndNavigation

\* handleBillModalClose: clearMapData(), setTripStartLocation(null)
NavigationBillModalClose ==
  /\ HandleBillModalClose
  /\ ClearMapData
  /\ tripStartLocation' = 0
  /\ UnchangedRefetch
  /\ UNCHANGED <<locationEvents, lastInbound, lastLocationEvent>>
  /\ UnchangedOutsideRideAndNavigation

\* handleLocationUpdate up to its await, for a fix at the given distance
\* from the route; on the route, splitRouteAtDriver moves the nearest index
\* to n
HandleLocationUpdate(distance, n) ==
  /\ locationEvents < MaxLocationEvents
  /\ locationEvents' = locationEvents + 1
  /\ lastLocationEvent' = [path |-> "fix", distance |-> distance,
                           significant |-> TRUE]
  /\ IF rideStatus \in ActiveStatuses /\ ride # NoRide
          /\ fullRouteCoords # NoRoute
     THEN IF IsDriverOffRoute(distance)
                /\ RefetchAllowed(offRouteReFetchInProgress)
          THEN /\ offRouteReFetchInProgress' = TRUE
               /\ recalcInFlight' =
                    Append(recalcInFlight,
                           RecalcRequest("fix", rideStatus, ride.rideId))
               /\ UnchangedMap
          ELSE /\ nearestPointIndex' =
                    IF IsDriverOffRoute(distance) THEN nearestPointIndex ELSE n
               /\ lastCoord' = 1
               /\ UNCHANGED <<fullRouteCoords, offRouteReFetchInProgress,
                              recalcInFlight>>
     ELSE /\ IF rideStatus \in {"completed", "idle"}
             THEN ClearMapData
             ELSE /\ lastCoord' = 1
                  /\ UNCHANGED <<fullRouteCoords, nearestPointIndex>>
          /\ UNCHANGED <<offRouteReFetchInProgress, recalcInFlight>>
  /\ UNCHANGED <<tripStartLocation, lastOffRouteCheckTime, lastInbound>>
  /\ UNCHANGED rideVars
  /\ UnchangedOutsideRideAndNavigation

\* updateSmoothRoute up to its await, run by the 250 ms throttle after a
\* change of location: the position is at the given distance from the
\* route, significant says whether it moved 8 m since the last update
UpdateSmoothRoute(distance, significant, n) ==
  /\ locationEvents < MaxLocationEvents
  /\ locationEvents' = locationEvents + 1
  /\ lastLocationEvent' = [path |-> "polyline", distance |-> distance,
                           significant |-> significant]
  /\ IF fullRouteCoords # NoRoute /\ rideStatus \in ActiveStatuses
          /\ significant
     THEN IF ride # NoRide /\ RefetchAllowed(offRouteReFetchInProgress)
                /\ IsDriverOffRoute(distance) /\ ~lastOffRouteCheckTime
          THEN /\ lastOffRouteCheckTime' = TRUE
               /\ offRouteReFetchInProgress' = TRUE
               /\ recalcInFlight' =
                    Append(recalcInFlight,
                           RecalcRequest("polyline", rideStatus, ride.rideId))
               /\ UNCHANGED nearestPointIndex
          ELSE /\ nearestPointIndex' = n
               /\ UnchangedRefetch
     ELSE /\ UNCHANGED nearestPointIndex
          /\ UnchangedRefetch
  /\ UNCHANGED <<fullRouteCoords, lastCoord, tripStartLocation, lastInbound>>
  /\ UNCHANGED rideVars
  /\ UnchangedOutsideRideAndNavigation

\* 3 s pass since lastOffRouteCheckTime
OffRouteThrottleElapses ==
  /\ lastOffRouteCheckTime
  /\ lastOffRouteCheckTime' = FALSE
  /\ UNCHANGED <<fullRouteCoords, nearestPointIndex, lastCoord,
                 tripStartLocation, offRouteReFetchInProgress, recalcInFlight,
                 locationEvents, lastInbound, lastLocationEvent>>
  /\ UNCHANGED rideVars
  /\ UnchangedOutsideRideAndNavigation

\* the route a recalculation answers with
RecalculatedRoute(request) == RouteTo(request.target, request.rideId)

\* what the continuation of request installs as fullRouteCoords when the
\* answer is a route: setFullRouteCoords(newRouteData.coords), at once in
\* handleLocationUpdate and at the end of the transition animation in
\* updateSmoothRoute
InstalledRoute(request) == RecalculatedRoute(request)

\* the continuation of the i-th getRouteWithDetails call: the answer is a
\* route (ok) or null
RecalcResponse(i, ok) ==
  /\ i \in 1..Len(recalcInFlight)
  /\ LET request == recalcInFlight[i] IN
     /\ recalcInFlight' = RemoveAt(recalcInFlight, i)
     /\ offRouteReFetchInProgress' = FALSE
     /\ IF ok
        THEN /\ fullRouteCoords' = InstalledRoute(request)
             /\ nearestPointIndex' = 0
        ELSE UNCHANGED <<fullRouteCoords, nearestPointIndex>>
     /\ lastCoord' = IF request.path = "fix" THEN 1 ELSE lastCoord
  /\ UNCHANGED <<tripStartLocation, lastOffRouteCheckTime, locationEvents,
                 lastInbound, lastLocationEvent>>
  /\ UNCHANGED rideVars
  /\ UnchangedOutsideRideAndNavigation

NavigationAtRest ==
  /\ fullRouteCoords = NoRoute
  /\ nearestPointIndex = 0
  /\ lastCoord = 0
  /\ tripStartLocation = 0
  /\ offRouteReFetchInProgress = FALSE
  /\ lastOffRouteCheckTime = FALSE
  /\ recalcInFlight = <<>>
  /\ locationEvents = 0
  /\ lastInbound = NoInbound
  /\ lastLocationEvent = NoLocationEvent

(***************************************************************************)
(* The JS channel: the socket of socket.ts with its heartbeat timer and    *)
(* its disconnect handler, and what DriverScreen does on connect, on       *)
(* disconnect and in its 7 s heartbeat effect.  The socket is closed       *)
(* ("down"), opening or open ("up").  connect_error leaves the socket      *)
(* opening: the socket.io manager retries (reconnection: true).            *)
(***************************************************************************)
\* socket.connect(): a socket that is opening or open stays as it is
ChannelAfterConnect(s) == IF s = "down" THEN "opening" ELSE s

\* reconnectSocket(): DriverScreen imports it from './socket', which does
\* not define it; it may start a connection or do nothing
ReconnectSocketOutcomes(s) == {s, ChannelAfterConnect(s)}

\* startHeartbeat: stopHeartbeat(), then setInterval gives a new timer
RestartedInterval(timer) == IF timer = 1 THEN 2 ELSE 1

\* what connectSocket leaves in heartbeatInterval: startHeartbeat() is
\* called whatever the socket's state
IntervalAfterConnect(s, timer) == RestartedInterval(timer)

\* the first emits since the socket connected, after msgs were emitted
Emitted(log, msgs) == SubSeq(log \o msgs, 1, Min(Len(log \o msgs), MaxOutbound))

\* rideStatus === "accepted" || rideStatus === "started"
IsActiveRide == rideStatus \in ActiveStatuses

UnchangedScreenChannel == UNCHANGED <<socketReconnectAttempts,
                                      ticksFailedInARow, locationKnown,
                                      tickWaiting, isRegistered>>

\* connectSocket
ConnectSocket ==
  /\ heartbeatSocket' = IF heartbeatSocket # "up"
                        THEN ChannelAfterConnect(heartbeatSocket)
                        ELSE heartbeatSocket
  /\ heartbeatInterval' = IntervalAfterConnect(heartbeatSocket,
                                               heartbeatInterval)
  /\ explicitDisconnect' = FALSE
  /\ UNCHANGED <<autoReconnectEnabled, reconnectTimeouts>>

\* what disconnectSocket leaves pending of the reconnect timeouts: it does
\* not touch them
TimeoutsAfterDisconnect(timeouts) == timeouts

\* disconnectSocket: stopHeartbeat(), socket.disconnect(); the disconnect
\* event of an open socket has the reason "io client disconnect" and
\* schedules nothing; handleDisconnect of the screen
DisconnectSocket ==
  /\ heartbeatInterval' = 0
  /\ heartbeatSocket' = "down"
  /\ explicitDisconnect' = TRUE
  /\ reconnectTimeouts' = TimeoutsAfterDisconnect(reconnectTimeouts)
  /\ isRegistered' = IF heartbeatSocket = "up" THEN FALSE ELSE isRegistered
  /\ UNCHANGED autoReconnectEnabled

\* the "Register driver with socket" effect registers a driver that is not
\* registered
RegistersByEffect(online, known) == ~isRegistered /\ known /\ online

\* the effects of the screen after a render with these values of
\* isDriverOnline and location, log being what was emitted so far: the
\* register effect, then the socket effect, which connects the socket of a
\* driver who is online and disconnects the socket of one who is not
ScreenRenders(online, known, log) ==
  /\ locationKnown' = known
  /\ outbound' = IF RegistersByEffect(online, known) /\ heartbeatSocket = "up"
                 THEN Emitted(log, <<"registerDriver">>)
                 ELSE log
  /\ IF online /\ heartbeatSocket # "up"
     THEN /\ ConnectSocket
          /\ isRegistered' = (isRegistered \/ RegistersByEffect(online, known))
     ELSE IF ~online /\ heartbeatSocket = "up"
          THEN DisconnectSocket
          ELSE /\ isRegistered' = (isRegistered
                                     \/ RegistersByEffect(online, known))
               /\ UNCHANGED <<heartbeatSocket, heartbeatInterval,
                              explicitDisconnect, reconnectTimeouts,
                              autoReconnectEnabled>>
  /\ UNCHANGED <<socketReconnectAttempts, ticksFailedInARow, tickWaiting>>

\* toggleOnlineStatus of a driver with a position, goOfflineNormally: going
\* offline emits driverOffline on an open socket; going online calls
\* reconnectSocket() on a socket that is not open, and the socket effect
\* that follows calls connectSocket() on it
ChannelSetDriverOnline(b) ==
  /\ SetDriverOnline(b)
  /\ b => locationKnown
  /\ ScreenRenders(b, locationKnown,
                   IF ~b /\ heartbeatSocket = "up"
                   THEN Emitted(outbound, <<"driverOffline">>)
                   ELSE outbound)
  /\ UnchangedOutsideRideChannelAndHeartbeat

\* the screen renders: at mount, and when another dependency of the socket
\* effect changed (ride, userData, currentSpeed, a new position)
ScreenRendersAgain ==
  /\ ScreenRenders(isDriverOnline, locationKnown, outbound)
  /\ UnchangedOutsideChannelAndHeartbeat

\* handleConnect of the screen registers the driver when the location is
\* known and the driver is online
RegistersOnConnect == locationKnown /\ isDriverOnline

\* the connect event: socket.ts restarts the heartbeat, handleConnect of
\* the screen registers the driver
ChannelConnects ==
  /\ heartbeatSocket = "opening"
  /\ heartbeatSocket' = "up"
  /\ heartbeatInterval' = RestartedInterval(heartbeatInterval)
  /\ outbound' = IF RegistersOnConnect THEN <<"registerDriver">> ELSE <<>>
  /\ isRegistered' = (isRegistered \/ RegistersOnConnect)
  /\ UNCHANGED <<autoReconnectEnabled, reconnectTimeouts, explicitDisconnect,
                 socketReconnectAttempts, ticksFailedInARow, locationKnown,
                 tickWaiting>>
  /\ UnchangedOutsideChannelAndHeartbeat

DisconnectReasons == {"io server disconnect", "transport close"}

\* the disconnect event of an open socket that the client did not close:
\* socket.ts schedules socket.connect() after a server disconnect, the
\* socket.io manager reconnects by itself after a transport error;
\* handleDisconnect of the screen
ChannelDisconnects(reason) ==
  /\ heartbeatSocket = "up"
  /\ reconnectTimeouts < MaxReconnectTimeouts
  /\ heartbeatSocket' = IF reason = "io server disconnect"
                        THEN "down" ELSE "opening"
  /\ reconnectTimeouts' =
       IF autoReconnectEnabled /\ reason = "io server disconnect"
       THEN reconnectTimeouts + 1 ELSE reconnectTimeouts
  /\ isRegistered' = FALSE
  /\ outbound' = <<>>
  /\ UNCHANGED <<heartbeatInterval, autoReconnectEnabled, explicitDisconnect,
                 socketReconnectAttempts, ticksFailedInARow, locationKnown,
                 tickWaiting>>
  /\ UnchangedOutsideChannelAndHeartbeat

\* the callback of setTimeout(() => socket.connect(), 1000)
ReconnectTimeoutFires ==
  /\ reconnectTimeouts > 0
  /\ reconnectTimeouts' = reconnectTimeouts - 1
  /\ heartbeatSocket' = ChannelAfterConnect(heartbeatSocket)
  /\ UNCHANGED <<heartbeatInterval, autoReconnectEnabled, explicitDisconnect,
                 outbound>>
  /\ UnchangedScreenChannel
  /\ UnchangedOutsideChannelAndHeartbeat

\* the first position arrives
FirstLocation ==
  /\ ~locationKnown
  /\ ScreenRenders(isDriverOnline, TRUE, outbound)
  /\ UnchangedOutsideChannelAndHeartbeat

\* what the heartbeat callback emits on an open socket
HeartbeatEmits ==
  <<"heartbeat">> \o (IF IsActiveRide /\ locationKnown
                      THEN <<"driverLocationUpdate">> ELSE <<>>)

\* what the heartbeat callback emits after its wait, on a socket that is
\* open again
ReRegistrationEmits ==
  IF locationKnown
  THEN <<"registerDriver">> \o (IF IsActiveRide
                                THEN <<"driverLocationUpdate">> ELSE <<>>)
  ELSE <<>>

\* isDriverOnline || rideStatus === "accepted" || rideStatus === "started"
ShouldMaintainSocket == isDriverOnline \/ IsActiveRide

\* the callback of the screen's 7 s interval, up to its 2.5 s wait
ScreenHeartbeatTick ==
  /\ ShouldMaintainSocket
  /\ ~tickWaiting
  /\ IF heartbeatSocket # "up"
     THEN IF socketReconnectAttempts + 1 <= maxReconnectAttempts
          THEN /\ socketReconnectAttempts' = socketReconnectAttempts + 1
               /\ heartbeatSocket' \in ReconnectSocketOutcomes(heartbeatSocket)
               /\ tickWaiting' = TRUE
               /\ UNCHANGED outbound
          ELSE /\ socketReconnectAttempts' = 0
               /\ UNCHANGED <<heartbeatSocket, tickWaiting, outbound>>
     ELSE /\ socketReconnectAttempts' = 0
          /\ outbound' = Emitted(outbound, HeartbeatEmits)
          /\ UNCHANGED <<heartbeatSocket, tickWaiting>>
  /\ UNCHANGED <<heartbeatInterval, autoReconnectEnabled, reconnectTimeouts,
                 explicitDisconnect, ticksFailedInARow, locationKnown,
                 isRegistered>>
  /\ UnchangedOutsideChannelAndHeartbeat

\* the callback after its wait: on an open socket it resets the counter and
\* registers the driver again
ScreenHeartbeatResumes ==
  /\ tickWaiting
  /\ tickWaiting' = FALSE
  /\ IF heartbeatSocket = "up"
     THEN /\ socketReconnectAttempts' = 0
          /\ outbound' = Emitted(outbound, ReRegistrationEmits)
     ELSE UNCHANGED <<socketReconnectAttempts, outbound>>
  /\ UNCHANGED <<heartbeatSocket, heartbeatInterval, autoReconnectEnabled,
                 reconnectTimeouts, explicitDisconnect, ticksFailedInARow,
                 locationKnown, isRegistered>>
  /\ UnchangedOutsideChannelAndHeartbeat

ChannelAtRest ==
  /\ heartbeatInterval = 0
  /\ autoReconnectEnabled = TRUE
  /\ reconnectTimeouts = 0
  /\ explicitDisconnect = FALSE
  /\ outbound = <<>>
  /\ locationKnown = FALSE
  /\ tickWaiting = FALSE
  /\ isRegistered = FALSE

(***************************************************************************)
(* The 'rideState' key of AsyncStorage.  saveRideState and clearRideState  *)
(* call setItem / removeItem and await the result; the storage module      *)
(* runs the calls one after the other, in the order they were made.  The   *)
(* handlers of the ride machine write rideState in one step: it is what    *)
(* the key holds once the calls of the step have finished.                 *)
(***************************************************************************)
\* the save-on-change effect after a step: saveRideState() of the new
\* render, when ride or rideStatus changed and a ride is active
EffectWrites ==
  IF ride' # NoRide /\ rideStatus' \in ActiveStatuses
       /\ <<ride', rideStatus'>> # <<ride, rideStatus>>
  THEN <<[ride |-> ride', rideStatus |-> rideStatus']>>
  ELSE <<>>

\* a handler of the ride machine whose own code makes the calls of
\* handlerWrites; the save-on-change effect follows
SnapshotRideStep(A, handlerWrites) ==
  /\ A
  /\ Len(snapshotWrites) + Len(handlerWrites) + 1 <= MaxSnapshotWrites
  /\ snapshotWrites' = snapshotWrites \o handlerWrites \o EffectWrites
  /\ UNCHANGED snapshotStored
  /\ UnchangedOutsideRideAndSnapshot

\* the callback of the 10 s state save interval
PeriodicStateSave ==
  /\ ride # NoRide /\ rideStatus \in ActiveStatuses
  /\ Len(snapshotWrites) < MaxSnapshotWrites
  /\ snapshotWrites' = Append(snapshotWrites, SaveRideState(CurrentClosure))
  /\ UNCHANGED snapshotStored
  /\ UnchangedOutsideSnapshot

\* the storage module finishes the oldest call
SnapshotWriteFinishes ==
  /\ snapshotWrites # <<>>
  /\ snapshotStored' = Head(snapshotWrites)
  /\ snapshotWrites' = Tail(snapshotWrites)
  /\ UnchangedOutsideSnapshot

SnapshotAtRest ==
  /\ snapshotWrites = <<>>
  /\ snapshotStored = NoSnapshot

(***************************************************************************)
(* The emitters of driverLocationUpdate of DriverScreen: the fix handler   *)
(* (handleLocationUpdate - saveLocationToDatabase), the 1 s interval of an *)
(* active ride, the 7 s heartbeat and its re-registration after a          *)
(* reconnect.  Fixes are numbered in the order they arrive.                *)
(***************************************************************************)
\* no heartbeat callback is in its wait
NoTick == -1

\* socket.emit('driverLocationUpdate', ...) with the position of fix f:
\* the fix of the last update emitted afterwards
EmitLocation(f) == IF emitterConnected THEN f ELSE lastEmittedFix

\* handleLocationUpdate up to saveLocationToDatabase; awaits says whether
\* the fix is off the route with no recalculation in progress, so that the
\* handler awaits getRouteWithDetails before it goes on
EmissionHandleLocationUpdate(awaits) ==
  /\ IsActiveRide
  /\ locationFix < MaxEmissionFixes
  /\ awaits => fixAwaitingRoute = 0
  /\ locationFix' = locationFix + 1
  /\ IF awaits
     THEN /\ fixAwaitingRoute' = locationFix'
          /\ UNCHANGED lastEmittedFix
     ELSE /\ lastEmittedFix' = EmitLocation(locationFix')
          /\ UNCHANGED fixAwaitingRoute
  /\ UNCHANGED <<emitterConnected, waitingTickLocation>>
  /\ UnchangedOutsideEmission

\* handleLocationUpdate after the answer of getRouteWithDetails:
\* saveLocationToDatabase(newLocation) with the fix the handler was called
\* with
EmissionRouteAnswer ==
  /\ fixAwaitingRoute # 0
  /\ fixAwaitingRoute' = 0
  /\ lastEmittedFix' = IF IsActiveRide THEN EmitLocation(fixAwaitingRoute)
                       ELSE lastEmittedFix
  /\ UNCHANGED <<locationFix, emitterConnected, waitingTickLocation>>
  /\ UnchangedOutsideEmission

\* the callback of the 1 s interval of an active ride: locationRef.current
LocationEmissionTick ==
  /\ IsActiveRide
  /\ locationFix # 0 /\ emitterConnected
  /\ lastEmittedFix' = EmitLocation(locationFix)
  /\ UNCHANGED <<locationFix, fixAwaitingRoute, emitterConnected,
                 waitingTickLocation>>
  /\ UnchangedOutsideEmission

\* the callback of the 7 s heartbeat interval: on an open socket it emits
\* the location of its render, on a closed one it starts its wait
EmissionHeartbeatTick ==
  /\ ShouldMaintainSocket
  /\ waitingTickLocation = NoTick
  /\ IF emitterConnected
     THEN /\ lastEmittedFix' = IF IsActiveRide /\ locationFix # 0
                               THEN EmitLocation(locationFix)
                               ELSE lastEmittedFix
          /\ UNCHANGED waitingTickLocation
     ELSE /\ waitingTickLocation' = locationFix
          /\ UNCHANGED lastEmittedFix
  /\ UNCHANGED <<locationFix, fixAwaitingRoute, emitterConnected>>
  /\ UnchangedOutsideEmission

\* the heartbeat callback after its wait: on a socket that is open again it
\* registers the driver and emits the location of its own render
EmissionHeartbeatResumes ==
  /\ waitingTickLocation # NoTick
  /\ waitingTickLocation' = NoTick
  /\ lastEmittedFix' = IF waitingTickLocation # 0 /\ IsActiveRide
                       THEN EmitLocation(waitingTickLocation)
                       ELSE lastEmittedFix
  /\ UNCHANGED <<locationFix, fixAwaitingRoute, emitterConnected>>
  /\ UnchangedOutsideEmission

\* the connect / disconnect event of the socket
EmitterConnectionChanges ==
  /\ emitterConnected' = ~emitterConnected
  /\ UNCHANGED <<locationFix, fixAwaitingRoute, waitingTickLocation,
                 lastEmittedFix>>
  /\ UnchangedOutsideEmission

EmissionAtRest ==
  /\ locationFix = 0
  /\ fixAwaitingRoute = 0
  /\ emitterConnected = FALSE
  /\ waitingTickLocation = NoTick
  /\ lastEmittedFix = 0

(***************************************************************************)
(* handleRideRequest with its await: the handler reads the auth token and  *)
(* fetches the ride details before it applies the offer; messages that     *)
(* arrive meanwhile are handled first.                                      *)
(***************************************************************************)
\* handleRideRequest up to its await, for an offer it does not ignore
OfferRequestReceived(r, otp) ==
  /\ r # NoId
  /\ isDriverOnline
  /\ offerCount + Len(offerFetches) < MaxOffers
  /\ Len(offerFetches) < MaxOfferFetches
  /\ offerFetches' = Append(offerFetches, [rideId |-> r, otp |-> otp])
  /\ takenSinceOffer' = takenSinceOffer \ {r}
  /\ UNCHANGED rideVars
  /\ UnchangedOutsideRideAndOffer

\* handleRideRequest after the answer of the fetch (or its failure): the
\* offer is applied
OfferRequestApplied(i) ==
  /\ i \in 1..Len(offerFetches)
  /\ offerFetches' = RemoveAt(offerFetches, i)
  /\ HandleRideRequest(offerFetches[i].rideId, offerFetches[i].otp)
  /\ UNCHANGED takenSinceOffer
  /\ UnchangedOutsideRideAndOffer

\* handleRideAlreadyAccepted, and handleRideTakenByDriver for a ride taken
\* by another driver: a message for a ride other than the one of the screen
\* changes nothing
OfferRideTaken(r) ==
  /\ offerFetches # <<>> \/ ride # NoRide
  /\ takenSinceOffer' = takenSinceOffer \cup {r}
  /\ IF ride # NoRide /\ ride.rideId = r
     THEN HandleRideTaken(r, OtherDriverId)
     ELSE /\ emitted' = {}
          /\ UNCHANGED <<ride, rideStatus, isDriverOnline, socketConnected,
                         alertClosure, alert>>
          /\ UnchangedAccept /\ UnchangedOtp /\ UnchangedBilling
          /\ UnchangedStore
  /\ UNCHANGED offerFetches
  /\ UnchangedOutsideRideAndOffer

\* a handler of the ride machine that leaves the pending offers alone
OfferRideStep(A) ==
  /\ A
  /\ UNCHANGED <<offerFetches, takenSinceOffer>>
  /\ UnchangedOutsideRideAndOffer

OfferAtRest ==
  /\ offerFetches = <<>>
  /\ takenSinceOffer = {}

(***************************************************************************)
(* interpolateRoutes (RouteService), interpolateRoute (SmoothPolyline) and *)
(* interpolateRoutes of the polyline animation hook.  Points are           *)
(* latitudes; progress p stands for p / ProgressScale.                     *)
(***************************************************************************)
InterpolateLatitudes == {0, 2}
InterpolateRoutesUpTo(n) ==
  UNION {[1..k -> InterpolateLatitudes] : k \in 0..n}
Progresses == 0..ProgressScale

\* interpolatePoint / lerp: start + (end - start) * fraction
InterpolatePoint(start, end, p) == start + ((end - start) * p) \div ProgressScale

\* the length of the reference route
ReferenceLengthOfNew(old, new) == Len(new)
ReferenceLength(old, new) ==
  IF Len(new) >= Len(old) THEN Len(new) ELSE Len(old)

\* interpolateRoutes of RouteService
InterpolateRoutes(old, new, p) ==
  IF old = <<>> THEN new
  ELSE IF new = <<>> THEN old
  ELSE IF p >= ProgressScale THEN new
  ELSE IF p <= 0 THEN old
  ELSE [i \in 1..ReferenceLength(old, new) |->
          InterpolatePoint(
            old[Min(((i - 1) * Len(old)) \div ReferenceLength(old, new),
                    Len(old) - 1) + 1],
            new[Min(i - 1, Len(new) - 1) + 1], p)]

\* interpolateRoute of SmoothPolyline: the same code
InterpolateRoute(old, new, p) == InterpolateRoutes(old, new, p)

\* interpolateRoutes of the animation hook: one point for every point of
\* the new route
InterpolateRoutesHook(old, new, p) ==
  IF old = <<>> THEN new
  ELSE IF new = <<>> THEN old
  ELSE [i \in 1..Len(new) |->
          InterpolatePoint(IF i <= Len(old) THEN old[i] ELSE old[Len(old)],
                           new[i], p)]

NoInterpolated == [route |-> <<>>, done |-> FALSE]

CallInterpolateRoutes ==
  /\ ~interpolatedRoutes.done
  /\ interpolatedRoutes' =
       [route |-> InterpolateRoutes(interpolateOld, interpolateNew,
                                    interpolateProgress), done |-> TRUE]
  /\ UNCHANGED <<interpolateOld, interpolateNew, interpolateProgress,
                 interpolatedRoute, interpolatedHook>>
  /\ UnchangedOutsideInterpolate

CallInterpolateRoute ==
  /\ ~interpolatedRoute.done
  /\ interpolatedRoute' =
       [route |-> InterpolateRoute(interpolateOld, interpolateNew,
                                   interpolateProgress), done |-> TRUE]
  /\ UNCHANGED <<interpolateOld, interpolateNew, interpolateProgress,
                 interpolatedRoutes, interpolatedHook>>
  /\ UnchangedOutsideInterpolate

CallInterpolateRoutesHook ==
  /\ ~interpolatedHook.done
  /\ interpolatedHook' =
       [route |-> InterpolateRoutesHook(interpolateOld, interpolateNew,
                                        interpolateProgress), done |-> TRUE]
  /\ UNCHANGED <<interpolateOld, interpolateNew, interpolateProgress,
                 interpolatedRoutes, interpolatedRoute>>
  /\ UnchangedOutsideInterpolate

\* nothing to interpolate
InterpolateAtRest ==
  /\ interpolateOld = <<>>
  /\ interpolateNew = <<>>
  /\ interpolateProgress = 0
  /\ interpolatedRoutes = NoInterpolated
  /\ interpolatedRoute = NoInterpolated
  /\ interpolatedHook = NoInterpolated

\* two routes and a progress in [0, 1]
InterpolateInputs ==
  /\ interpolateOld \in InterpolateRoutesUpTo(MaxInterpolateLen)
  /\ interpolateNew \in InterpolateRoutesUpTo(MaxInterpolateLen)
  /\ interpolateProgress \in Progresses
  /\ interpolatedRoutes = NoInterpolated
  /\ interpolatedRoute = NoInterpolated
  /\ interpolatedHook = NoInterpolated

(***************************************************************************)
(* fetchRoute of DriverScreen: a routing request with a 12 s abort timer,  *)
(* retried after 1 s while retryCount < maxRetries.  The acknowledgement   *)
(* of acceptRide calls it for the route to the pickup after it set         *)
(* rideStatus, startNavigation calls it for the route to the drop 500 ms   *)
(* after the trip started.  Positions are numbers.                         *)
(***************************************************************************)
\* maxRetries of fetchRoute
maxRetries == 2

FetchCallers == {"accept", "tripStart"}
DriverPosition == "driver"
PickupPosition == "pickup"
DropPosition == "drop"
\* what the routing service may answer with
RouteAnswers(origin, destination) ==
  {<<origin, destination>>, <<origin, "via", destination>>}
\* how a request ends: a route, no route (or a broken geometry), an HTTP or
\* network error, the abort of the 12 s timer
FetchOutcomes == {"route", "noRoutes", "error", "abort"}

NoFetch ==
  [phase |-> "idle", origin |-> "none", destination |-> "none",
   retryCount |-> 0,
   requests |-> 0, routed |-> FALSE, result |-> <<>>]

\* fetchRoute(origin, destination): the first request is sent
FetchCalled(origin, destination) ==
  [phase |-> "request", origin |-> origin, destination |-> destination,
   retryCount |-> 0, requests |-> 1, routed |-> FALSE, result |-> <<>>]

\* retryCount < maxRetries
MayRetry(call) == call.retryCount < maxRetries

\* return [origin, destination]
StraightLineFallbackUndefined(call) == [call EXCEPT !.phase = "done"]
StraightLineFallback(call) ==
  [call EXCEPT !.phase = "done",
               !.result = <<call.origin, call.destination>>]

\* a failed attempt: wait 1 s and call fetchRoute again, or fall back
AfterFailure(call) ==
  IF MayRetry(call) THEN [call EXCEPT !.phase = "wait"]
  ELSE StraightLineFallback(call)

\* the calls fetchRoute may be left in by a request that ended with outcome.
\* An aborted request is retried unless the message of its error contains
\* 'AbortError', which depends on the platform's fetch
FetchAnswered(call, outcome) ==
  CASE outcome = "route" ->
         {[call EXCEPT !.phase = "done", !.routed = TRUE, !.result = route] :
            route \in RouteAnswers(call.origin, call.destination)}
    [] outcome \in {"noRoutes", "error"} -> {AfterFailure(call)}
    [] OTHER -> {AfterFailure(call), StraightLineFallback(call)}

\* the routing request of a call ends
FetchAnswers(caller, outcome) ==
  /\ fetchCalls[caller].phase = "request"
  /\ \E call \in FetchAnswered(fetchCalls[caller], outcome) :
       fetchCalls' = [fetchCalls EXCEPT ![caller] = call]
  /\ UNCHANGED rideVars
  /\ UnchangedOutsideRideAndFetch

\* the 1 s wait ends: fetchRoute(origin, destination, retryCount + 1)
FetchRetries(caller) ==
  /\ fetchCalls[caller].phase = "wait"
  /\ fetchCalls' =
       [fetchCalls EXCEPT ![caller] =
          [@ EXCEPT !.phase = "request", !.retryCount = @ + 1,
                    !.requests = @ + 1]]
  /\ UNCHANGED rideVars
  /\ UnchangedOutsideRideAndFetch

\* startNavigation, run 500 ms after proceedWithTripStartSafe
StartNavigation ==
  /\ rideStatus = "started" /\ ride # NoRide
  /\ fetchCalls["tripStart"].phase = "idle"
  /\ fetchCalls' = [fetchCalls EXCEPT
                      !["tripStart"] = FetchCalled(DriverPosition, DropPosition)]
  /\ UNCHANGED rideVars
  /\ UnchangedOutsideRideAndFetch

\* a handler of the ride machine: none of them waits for a route
FetchRideStep(A) ==
  /\ A
  /\ UNCHANGED fetchCalls
  /\ UnchangedOutsideRideAndFetch

FetchAtRest == fetchCalls = [caller \in FetchCallers |-> NoFetch]

(***************************************************************************)
(* The accept lock and the acknowledgement of acceptRide.  The callback    *)
(* given to socket.emit is called when the server's acknowledgement        *)
(* arrives on the connection the emit was sent on; acceptRide sets no      *)
(* timeout for it and no disconnect handler calls it.                      *)
(***************************************************************************)
\* the acknowledgement arrives while the connection is up
AckDelivered(i, resp) ==
  /\ socketConnected
  /\ AcceptAck(i, resp)

\* the socket drops: the acknowledgements owed on the connection are lost
\* with it, their callbacks are never called
AcceptSocketDrops ==
  /\ socketConnected
  /\ socketConnected' = FALSE
  /\ acceptInFlight' = <<>>
  /\ emitted' = {}
  /\ UNCHANGED <<ride, rideStatus, isDriverOnline, alertClosure, alert,
                 isAccepting, acceptButtonDisabled, pendingAcceptRideId,
                 isLoading, acceptWaitConnect>>
  /\ UnchangedOtp /\ UnchangedBilling /\ UnchangedStore

(***************************************************************************)
(* Specifications.                                                         *)
(***************************************************************************)
\* the screen after its first render, with or without a stored token
RideInit(token) ==
  /\ ride = NoRide
  /\ rideStatus = "idle"
  /\ isDriverOnline = FALSE
  /\ socketConnected = FALSE
  /\ isAccepting = FALSE
  /\ acceptButtonDisabled = FALSE
  /\ pendingAcceptRideId = NoId
  /\ isLoading = FALSE
  /\ alertClosure = InitialClosure
  /\ alert = NoAlert
  /\ acceptInFlight = <<>>
  /\ acceptWaitConnect = {}
  /\ otpModalVisible = FALSE
  /\ enteredOtp = ""
  /\ otpVerifying = FALSE
  /\ tripStartTimer = NoTimer
  /\ otpMatchedFor = {}
  /\ completionInFlight = NoCompletion
  /\ showBillModal = FALSE
  /\ billDetails = InitialBill
  /\ backendBills = {}
  /\ emitted = {}
  /\ rideState = NoSnapshot
  /\ authToken = token
  /\ restoreInFlight = NoRestore
  /\ lastRestore = "none"
  /\ offerCount = 0

Init ==
  /\ RideInit(TRUE)
  /\ ServiceInit /\ HeartbeatInit /\ TrackerInit /\ RouteAtRest
  /\ SimplifyAtRest /\ NavigationAtRest /\ ChannelAtRest /\ SnapshotAtRest
  /\ EmissionAtRest /\ OfferAtRest /\ InterpolateAtRest
  /\ FetchAtRest

\* a step of the screen's ride machine leaves the other sub-systems alone
RideStep(A) == A /\ UnchangedOutsideRide

\* ride ids are opaque to the screen: an offer is for a ride offered before
\* or for the next new one
OfferedRideIds == {r \in RideIds : r <= offerCount + 1}

\* an offer arrives, within the bound k on the offers of one run
Offer(k) ==
  /\ offerCount < k
  /\ \E r \in OfferedRideIds, otp \in OfferOtps : HandleRideRequest(r, otp)

\* offers, acceptance and the OTP gate while the driver stays online
Next ==
  \/ RideStep(SetDriverOnline(TRUE))
  \/ RideStep(Offer(MaxOffers))
  \/ RideStep(TapAcceptButton)
  \/ RideStep(TapAlertAccept)
  \/ RideStep(TapRejectButton)
  \/ RideStep(TapAlertReject)
  \/ \E i \in 1..MaxInFlight, resp \in AcceptResponses : RideStep(AcceptAck(i, resp))
  \/ RideStep(SocketConnect)
  \/ RideStep(SocketDisconnect)
  \/ \E w \in acceptWaitConnect : RideStep(AcceptRetry(w))
  \/ \E r \in RideIds : RideStep(HandleRideCancelled(r))
  \/ \E r \in RideIds : RideStep(HandleRideTaken(r, OtherDriverId))
  \/ \E r \in RideIds, otp \in ServerOtps : RideStep(HandleRideOTP(r, otp))
  \/ RideStep(OpenOtpModal)
  \/ \E code \in TypedOtps : RideStep(TypeOtp(code))
  \/ RideStep(ConfirmOTP)
  \/ RideStep(ProceedWithTripStartSafe)

Spec == Init /\ [][Next]_vars

\* one ride from the offer to the bill
BillingNext ==
  \/ RideStep(SetDriverOnline(TRUE))
  \/ RideStep(SocketConnect)
  \/ RideStep(SocketDisconnect)
  \/ RideStep(Offer(MaxBilledOffers))
  \/ RideStep(TapAlertAccept)
  \/ \E w \in acceptWaitConnect : RideStep(AcceptRetry(w))
  \/ \E i \in 1..MaxInFlight, resp \in AcceptResponses : RideStep(AcceptAck(i, resp))
  \/ \E r \in RideIds : RideStep(HandleRideCancelled(r))
  \/ RideStep(OpenOtpModal)
  \/ \E code \in TypedOtps : RideStep(TypeOtp(code))
  \/ RideStep(ConfirmOTP)
  \/ RideStep(ProceedWithTripStartSafe)
  \/ RideStep(CompleteRide)
  \/ RideStep(SubmitRideCompletion)
  \/ RideStep(CompletionAlertCancel)
  \/ \E ok \in BOOLEAN, b \in BackendBills : RideStep(CompletionResult(ok, b))
  \/ \E r \in RideIds, b \in BackendBills : RideStep(HandleBillAlert(r, b))
  \/ RideStep(HandleBillModalClose)

BillingSpec == Init /\ [][BillingNext]_vars

\* the screen with or without a stored token
RestoreInit ==
  /\ \E token \in BOOLEAN : RideInit(token)
  /\ ServiceInit /\ HeartbeatInit /\ TrackerInit /\ RouteAtRest
  /\ SimplifyAtRest /\ NavigationAtRest /\ ChannelAtRest /\ SnapshotAtRest
  /\ EmissionAtRest /\ OfferAtRest /\ InterpolateAtRest
  /\ FetchAtRest

\* rides that are accepted and started, process kills and restores
RestoreNext ==
  \/ RideStep(SetDriverOnline(TRUE))
  \/ RideStep(SocketConnect)
  \/ RideStep(Offer(MaxRestoredOffers))
  \/ RideStep(TapAlertAccept)
  \/ \E w \in acceptWaitConnect : RideStep(AcceptRetry(w))
  \/ \E i \in 1..MaxInFlight, resp \in AcceptResponses : RideStep(AcceptAck(i, resp))
  \/ \E r \in RideIds : RideStep(HandleRideCancelled(r))
  \/ \E r \in RideIds : RideStep(HandleRideTaken(r, OtherDriverId))
  \/ RideStep(OpenOtpModal)
  \/ \E code \in TypedOtps : RideStep(TypeOtp(code))
  \/ RideStep(ConfirmOTP)
  \/ RideStep(ProceedWithTripStartSafe)
  \/ RideStep(ProcessKilled)
  \/ RideStep(RestoreBegin)
  \/ \E answer \in BackendAnswers \cup {"notAsked"} : RideStep(RestoreApply(answer))

RestoreSpec == RestoreInit /\ [][RestoreNext]_vars

\* the service from going online to kills, restarts and reboots
ServiceNext ==
  \/ \E v \in VehicleTypes, u \in SocketUrls : StartService(DriverId, v, u)
  \/ StopService
  \/ \E status \in ServiceStatuses, r \in ServiceRideIds :
        UpdateRideStatus(status, r)
  \/ ServiceProcessKilled
  \/ StickyRestart
  \/ DeviceReboot
  \/ BootCompleted
  \/ SocketEventConnect
  \/ SocketEventDisconnect
  \/ ReconnectTimerFires

ServiceSpec == Init /\ [][ServiceNext]_vars

\* connections that fail and come back, in the service and in the screen.
\* The service and the heartbeat effect share no variable: the effect is
\* followed while no service instance exists, the service while the effect
\* is where HeartbeatInit puts it, which leaves out only interleavings of independent steps.
ReconnectNext ==
  \/ \E u \in SocketUrls : HeartbeatInit /\ StartService(DriverId, "taxi", u)
  \/ StopService
  \/ SocketEventConnect
  \/ SocketEventConnectError
  \/ SocketEventDisconnect
  \/ ReconnectTimerFires
  \/ HeartbeatRun
  \/ \E ok \in BOOLEAN : ~serviceAlive /\ HeartbeatIntervalTick(ok)
  \/ ~serviceAlive /\ HeartbeatSocketDrops
  \/ ~serviceAlive /\ SocketIoReconnects

ReconnectSpec == Init /\ [][ReconnectNext]_vars

\* a tracker that is given fixes
TrackerNext ==
  \/ \E f \in Fixes : ProcessLocation(f)
  \/ ResetTracker

TrackerSpec == Init /\ [][TrackerNext]_vars

\* the route functions applied to a route, a driver and a hint
RouteInit ==
  /\ RideInit(TRUE)
  /\ ServiceInit /\ HeartbeatInit /\ TrackerInit /\ RouteInputs
  /\ SimplifyAtRest /\ NavigationAtRest /\ ChannelAtRest /\ SnapshotAtRest
  /\ EmissionAtRest /\ OfferAtRest /\ InterpolateAtRest
  /\ FetchAtRest

RouteNext ==
  \/ CallFindNearestPointOnRoute
  \/ CallFindNearestPointIndex
  \/ CallSplitRouteAtDriver
  \/ CallSplitRouteAtDriverPolyline

RouteSpec == RouteInit /\ [][RouteNext]_vars

\* simplifyRoute applied to a route
SimplifyInit ==
  /\ RideInit(TRUE)
  /\ ServiceInit /\ HeartbeatInit /\ TrackerInit /\ RouteAtRest
  /\ SimplifyInputs /\ NavigationAtRest /\ ChannelAtRest /\ SnapshotAtRest
  /\ EmissionAtRest /\ OfferAtRest /\ InterpolateAtRest
  /\ FetchAtRest

SimplifyNext ==
  \/ CallSimplifyRoute
  \/ CallSimplifyRoutePolyline

SimplifySpec == SimplifyInit /\ [][SimplifyNext]_vars

\* the ride the navigation machine starts with
AcceptedRide == [rideId |-> 1, otp |-> "1234"]

\* the screen after going online, the offer of AcceptedRide and its
\* acknowledged acceptance: the ride is accepted and saved
AcceptedRideInit ==
  /\ ride = AcceptedRide
  /\ rideStatus = "accepted"
  /\ isDriverOnline = TRUE
  /\ socketConnected = TRUE
  /\ isAccepting = FALSE
  /\ acceptButtonDisabled = FALSE
  /\ pendingAcceptRideId = NoId
  /\ isLoading = FALSE
  /\ alertClosure = InitialClosure
  /\ alert = NoAlert
  /\ acceptInFlight = <<>>
  /\ acceptWaitConnect = {}
  /\ otpModalVisible = FALSE
  /\ enteredOtp = ""
  /\ otpVerifying = FALSE
  /\ tripStartTimer = NoTimer
  /\ otpMatchedFor = {}
  /\ completionInFlight = NoCompletion
  /\ showBillModal = FALSE
  /\ billDetails = InitialBill
  /\ backendBills = {}
  /\ rideState = [ride |-> AcceptedRide, rideStatus |-> "accepted"]
  /\ authToken = TRUE
  /\ restoreInFlight = NoRestore
  /\ lastRestore = "none"
  /\ offerCount = 1

\* the bill the backend answers the completion of AcceptedRide with
NavigationBill == [fare |-> 100, distance |-> 7]

\* acceptRide's success branch fetched the route to the pickup and put it
\* on the map; the position of the driver is known
NavigationInit ==
  /\ AcceptedRideInit
  /\ emitted = {}
  /\ ServiceInit /\ HeartbeatInit /\ TrackerInit /\ RouteAtRest
  /\ SimplifyAtRest /\ ChannelAtRest /\ SnapshotAtRest
  /\ EmissionAtRest /\ OfferAtRest /\ InterpolateAtRest
  /\ FetchAtRest
  /\ fullRouteCoords = RouteTo("pickup", AcceptedRide.rideId)
  /\ nearestPointIndex = 0
  /\ lastCoord = 1
  /\ tripStartLocation = 0
  /\ offRouteReFetchInProgress = FALSE
  /\ lastOffRouteCheckTime = FALSE
  /\ recalcInFlight = <<>>
  /\ locationEvents = 0
  /\ lastInbound = NoInbound
  /\ lastLocationEvent = NoLocationEvent

NavigationNext ==
  \/ \E d \in Deviations, n \in 0..1 : HandleLocationUpdate(d, n)
  \/ \E d \in Deviations, significant \in BOOLEAN, n \in 0..1 :
       UpdateSmoothRoute(d, significant, n)
  \/ OffRouteThrottleElapses
  \/ \E i \in 1..Len(recalcInFlight), ok \in BOOLEAN : RecalcResponse(i, ok)
  \/ \E r \in RideIds : NavigationRideCancelled(r)
  \/ \E r \in RideIds : NavigationRideTaken(r, OtherDriverId)
  \/ NavigationRideStep(OpenOtpModal)
  \/ NavigationRideStep(TypeOtp(AcceptedRide.otp))
  \/ NavigationRideStep(ConfirmOTP)
  \/ NavigationTripStart
  \/ NavigationRideStep(CompleteRide)
  \/ NavigationRideStep(SubmitRideCompletion)
  \/ NavigationRideStep(CompletionAlertCancel)
  \/ \E ok \in BOOLEAN : NavigationCompletionResult(ok, NavigationBill)
  \/ NavigationBillModalClose

NavigationSpec == NavigationInit /\ [][NavigationNext]_vars

\* the screen with an accepted ride and the driver online; socket.ts was
\* just loaded (autoConnect: false) and no position has arrived
ChannelInit ==
  /\ AcceptedRideInit
  /\ emitted = {}
  /\ ServiceInit /\ TrackerInit /\ RouteAtRest
  /\ SimplifyAtRest /\ NavigationAtRest /\ ChannelAtRest /\ SnapshotAtRest
  /\ EmissionAtRest /\ OfferAtRest /\ InterpolateAtRest
  /\ FetchAtRest
  /\ socketReconnectAttempts = 0
  /\ heartbeatSocket = "down"
  /\ ticksFailedInARow = 0

\* the JS channel and the socket of the native service.  The two share no
\* variable: the service is followed while the JS channel is where
\* ChannelInit puts it, the JS channel while no service instance exists.
ChannelQuiet ==
  /\ ChannelAtRest
  /\ socketReconnectAttempts = 0 /\ heartbeatSocket = "down"

ConnectionNext ==
  \/ \E b \in BOOLEAN : ~serviceAlive /\ ChannelSetDriverOnline(b)
  \/ ~serviceAlive /\ ScreenRendersAgain
  \/ ~serviceAlive /\ ChannelConnects
  \/ \E reason \in DisconnectReasons : ~serviceAlive /\ ChannelDisconnects(reason)
  \/ ~serviceAlive /\ ReconnectTimeoutFires
  \/ ~serviceAlive /\ FirstLocation
  \/ ~serviceAlive /\ ScreenHeartbeatTick
  \/ ~serviceAlive /\ ScreenHeartbeatResumes
  \/ \E u \in SocketUrls : ChannelQuiet /\ StartService(DriverId, "taxi", u)
  \/ StopService
  \/ SocketEventConnect
  \/ SocketEventConnectError
  \/ SocketEventDisconnect
  \/ ReconnectTimerFires
  \/ HeartbeatRun

ConnectionSpec == ChannelInit /\ [][ConnectionNext]_vars

\* the screen with an accepted ride whose snapshot is stored
SnapshotInit ==
  /\ AcceptedRideInit
  /\ emitted = {}
  /\ ServiceInit /\ HeartbeatInit /\ TrackerInit /\ RouteAtRest
  /\ SimplifyAtRest /\ NavigationAtRest /\ ChannelAtRest
  /\ EmissionAtRest /\ OfferAtRest /\ InterpolateAtRest
  /\ FetchAtRest
  /\ snapshotWrites = <<>>
  /\ snapshotStored = [ride |-> AcceptedRide, rideStatus |-> "accepted"]

SnapshotNext ==
  \/ SnapshotRideStep(OpenOtpModal, <<>>)
  \/ SnapshotRideStep(TypeOtp(AcceptedRide.otp), <<>>)
  \/ SnapshotRideStep(ConfirmOTP, <<>>)
  \/ SnapshotRideStep(ProceedWithTripStartSafe,
                      <<SaveRideState(tripStartTimer.c)>>)
  \/ SnapshotRideStep(HandleRideCancelled(AcceptedRide.rideId),
                      <<NoSnapshot>>)
  \/ PeriodicStateSave
  \/ SnapshotWriteFinishes

SnapshotSpec == SnapshotInit /\ [][SnapshotNext]_vars

\* the screen with an accepted ride, before the first fix; the socket is
\* not connected
EmissionInit ==
  /\ AcceptedRideInit
  /\ emitted = {}
  /\ ServiceInit /\ HeartbeatInit /\ TrackerInit /\ RouteAtRest
  /\ SimplifyAtRest /\ NavigationAtRest /\ ChannelAtRest /\ SnapshotAtRest
  /\ EmissionAtRest /\ OfferAtRest /\ InterpolateAtRest
  /\ FetchAtRest

EmissionNext ==
  \/ \E awaits \in BOOLEAN : EmissionHandleLocationUpdate(awaits)
  \/ EmissionRouteAnswer
  \/ LocationEmissionTick
  \/ EmissionHeartbeatTick
  \/ EmissionHeartbeatResumes
  \/ EmitterConnectionChanges

EmissionSpec == EmissionInit /\ [][EmissionNext]_vars

OfferInit ==
  /\ RideInit(TRUE)
  /\ ServiceInit /\ HeartbeatInit /\ TrackerInit /\ RouteAtRest
  /\ SimplifyAtRest /\ NavigationAtRest /\ ChannelAtRest /\ SnapshotAtRest
  /\ EmissionAtRest /\ OfferAtRest /\ InterpolateAtRest
  /\ FetchAtRest

\* offers and the messages that report a ride taken, while the driver
\* stays online
OfferNext ==
  \/ OfferRideStep(SetDriverOnline(TRUE))
  \/ \E r \in OfferedRideIds, otp \in OfferOtps : OfferRequestReceived(r, otp)
  \/ \E i \in 1..MaxOfferFetches : OfferRequestApplied(i)
  \/ \E r \in RideIds : OfferRideTaken(r)
  \/ OfferRideStep(TapAlertReject)

OfferSpec == OfferInit /\ [][OfferNext]_vars

InterpolateInit ==
  /\ RideInit(TRUE)
  /\ ServiceInit /\ HeartbeatInit /\ TrackerInit /\ RouteAtRest
  /\ SimplifyAtRest /\ NavigationAtRest /\ ChannelAtRest /\ SnapshotAtRest
  /\ EmissionAtRest /\ OfferAtRest /\ InterpolateInputs
  /\ FetchAtRest

InterpolateNext ==
  \/ CallInterpolateRoutes
  \/ CallInterpolateRoute
  \/ CallInterpolateRoutesHook

InterpolateSpec == InterpolateInit /\ [][InterpolateNext]_vars

\* the acknowledgement of acceptRide set rideStatus to accepted and called
\* fetchRoute(location, pickup)
FetchRouteInit ==
  /\ AcceptedRideInit
  /\ emitted = {}
  /\ ServiceInit /\ HeartbeatInit /\ TrackerInit /\ RouteAtRest
  /\ SimplifyAtRest /\ NavigationAtRest /\ ChannelAtRest /\ SnapshotAtRest
  /\ EmissionAtRest /\ OfferAtRest /\ InterpolateAtRest
  /\ fetchCalls = [caller \in FetchCallers |->
                     IF caller = "accept"
                     THEN FetchCalled(DriverPosition, PickupPosition)
                     ELSE NoFetch]

FetchRouteNext ==
  \/ \E caller \in FetchCallers, outcome \in FetchOutcomes :
       FetchAnswers(caller, outcome)
  \/ \E caller \in FetchCallers : FetchRetries(caller)
  \/ StartNavigation
  \/ FetchRideStep(OpenOtpModal)
  \/ FetchRideStep(TypeOtp(AcceptedRide.otp))
  \/ FetchRideStep(ConfirmOTP)
  \/ FetchRideStep(ProceedWithTripStartSafe)

\* a request ends (its abort timer fires after 12 s at the latest) and the
\* 1 s wait of a retry ends
FetchRouteSpec ==
  /\ FetchRouteInit /\ [][FetchRouteNext]_vars
  /\ \A caller \in FetchCallers :
       /\ WF_vars(\E outcome \in FetchOutcomes : FetchAnswers(caller, outcome))
       /\ WF_vars(FetchRetries(caller))

\* offers and accept attempts on a socket that drops and comes back
AcceptLockNext ==
  \/ RideStep(SetDriverOnline(TRUE))
  \/ RideStep(Offer(MaxOffers))
  \/ RideStep(TapAcceptButton)
  \/ RideStep(TapAlertAccept)
  \/ RideStep(TapAlertReject)
  \/ \E i \in 1..MaxInFlight, resp \in AcceptResponses :
       RideStep(AckDelivered(i, resp))
  \/ RideStep(SocketConnect)
  \/ RideStep(AcceptSocketDrops)
  \/ \E w \in acceptWaitConnect : RideStep(AcceptRetry(w))

\* the server answers an acceptRide it received while the connection lasts,
\* socket.io reconnects a socket that is down, and the 1 s timer of a
\* parked acceptRide runs
AcceptLockSpec ==
  /\ Init /\ [][AcceptLockNext]_vars
  /\ WF_vars(\E i \in 1..MaxInFlight, resp \in AcceptResponses :
               RideStep(AckDelivered(i, resp)))
  /\ WF_vars(RideStep(SocketConnect))
  /\ WF_vars(\E w \in acceptWaitConnect : RideStep(AcceptRetry(w)))

(***************************************************************************)
(* Properties of the ride state machine.                                   *)
(***************************************************************************)
\* C1: while rideStatus is accepted or started, an incoming offer (socket
\* newRideRequest or push notification) is rejected: the ride and
\* rideStatus stay what they were, so at most one ride is ever non-idle.
C1_ActiveRideKeptOnOffer ==
  [][(rideStatus \in ActiveStatuses /\ ride # NoRide /\ offerCount' # offerCount)
        => (ride' = ride /\ rideStatus' = rideStatus)]_vars

\* the accepts that are pending: emitted and not acknowledged, or parked
\* until the socket is back
PendingAccepts == Len(acceptInFlight) + Cardinality(acceptWaitConnect)

\* C2: acceptRide is single-flight: while one acceptance is pending, a
\* further acceptRide call, for the same ride or another one, is rejected,
\* so there is never a second acceptance pending beside the first.
C2_AcceptSingleFlight == PendingAccepts <= 1

\* C3: rideStatus is started only when confirmOTP was called with a
\* 4-digit code equal to the otp of the ride that is now the current one.
C3_StartedOnlyAfterOtpMatch ==
  rideStatus = "started" => (ride # NoRide /\ ride.rideId \in otpMatchedFor)

\* payload fields that would carry a figure computed on the device
LocalFigures == {"distance", "fare", "charge", "lastCoord", "startLocation",
                 "locationHistory", "startLatitude", "startLongitude"}

\* C5: the completion messages (socket driverCompletedRide and the HTTP
\* complete-with-calculation request) carry the ride's id and the final
\* coordinates and no distance or fare computed on the device; the bill
\* modal is only shown with the fare and distance of a bill that the
\* backend has sent (HTTP result or billAlert), never before one arrived.
C5_BackendOnlyBilling ==
  /\ \A m \in emitted :
        /\ m.type = "driverCompletedRide" =>
              /\ m.rideId \in RideIds
              /\ {"rideId", "actualDrop"} \subseteq m.fields
              /\ m.fields \cap LocalFigures = {}
        /\ m.type = "completeWithCalculation" =>
              /\ m.rideId \in RideIds
              /\ {"rideId", "completedLatitude", "completedLongitude"}
                    \subseteq m.fields
              /\ m.fields \cap LocalFigures = {}
  /\ showBillModal =>
        \E b \in backendBills :
           billDetails.fare = b.fare /\ billDetails.distance = b.distance

\* C5 witness: the bill of a completed ride is on screen
C5_BillShown ==
  showBillModal /\ rideStatus = "completed" /\ billDetails \in BackendBills

\* a step that ends a restoreRideState call
RestoreStep ==
  restoreInFlight.pending /\ ~restoreInFlight'.pending /\ lastRestore' # "none"

\* the snapshot restoreRideState read is one of an accepted or started ride
ReadActiveSnapshot ==
  /\ restoreInFlight.snap.ride # NoRide
  /\ restoreInFlight.snap.rideStatus \in ActiveStatuses

\* the step puts the snapshot it read on the screen
RestoresSnapshot ==
  /\ ride' = restoreInFlight.snap.ride
  /\ rideStatus' = restoreInFlight.snap.rideStatus

\* C6 as stated: a snapshot of an accepted or started ride is restored only
\* after the backend has confirmed the ride as still valid; in every other
\* case (backend unreachable, other snapshot status, ...) nothing is
\* restored and the snapshot is removed.
C6_RestoredOnlyWhenConfirmed ==
  [][RestoreStep =>
       IF ReadActiveSnapshot /\ restoreInFlight.token /\ lastRestore' = "valid"
       THEN RestoresSnapshot
       ELSE /\ ride' = ride /\ rideStatus' = rideStatus
            /\ rideState' = NoSnapshot]_vars

\* the backend has refused the ride of the snapshot: an invalid status or 404
RefusedByBackend ==
  restoreInFlight.token /\ lastRestore' \in {"invalid", "notFound"}

\* C6 amended: a snapshot of an accepted or started ride is restored unless
\* the backend has refused it (status cancelled, completed, expired or
\* rejected, or 404), so also without a token, with the backend unreachable
\* or answering with another error; it is removed when the backend refused
\* it or when the snapshot itself is in status completed; a snapshot in any
\* other status is neither restored nor removed.
C6_RestoredUnlessRefused ==
  [][RestoreStep =>
       IF ReadActiveSnapshot
       THEN IF RefusedByBackend
            THEN /\ ride' = ride /\ rideStatus' = rideStatus
                 /\ rideState' = NoSnapshot
            ELSE RestoresSnapshot
       ELSE /\ ride' = ride /\ rideStatus' = rideStatus
            /\ rideState' = IF restoreInFlight.snap.rideStatus = "completed"
                            THEN NoSnapshot ELSE rideState]_vars

\* C6 witness: a ride is back on the screen after a restore that the
\* backend did not answer
C6_RestoredUnverified ==
  /\ lastRestore = "unreachable"
  /\ ~restoreInFlight.pending
  /\ ride # NoRide /\ rideStatus \in ActiveStatuses
  /\ rideState = [ride |-> ride, rideStatus |-> rideStatus]

(***************************************************************************)
(* Properties of the reconnect logic.                                      *)
(***************************************************************************)
\* the service has seen MAX_RECONNECT_ATTEMPTS automatic connects fail in a row
ServiceGaveUp == autoConnects >= MAX_RECONNECT_ATTEMPTS /\ socket = "idle"

\* the heartbeat effect has seen maxReconnectAttempts reconnects fail in a row
HeartbeatGaveUp == ticksFailedInARow >= maxReconnectAttempts

StoreAsksRestart ==
  /\ prefs.wasOnline
  /\ prefs.driverId \notin {NULL, ""}
  /\ prefs.socketUrl # NULL

\* the values the store holds
SavedFields ==
  [driverId |-> prefs.driverId, vehicleType |-> prefs.vehicleType,
   socketUrl |-> prefs.socketUrl, rideId |-> prefs.rideId,
   rideStatus |-> prefs.rideStatus]

\* C7: after boot the service runs exactly when the store holds wasOnline
\* with a driverId and a socketUrl, and then with the saved driverId,
\* vehicleType, socketUrl, rideId and rideStatus; and the store holds
\* wasOnline for as long as the driver has not explicitly gone offline.
C7_RebootRecovery ==
  [][/\ (booting /\ ~booting')
          => (/\ serviceAlive' <=> StoreAsksRestart
              /\ serviceAlive' => (isRunning' /\ serviceFields' = SavedFields))
     /\ driverOnline' => prefs'.wasOnline]_vars

\* C7, the part on boot alone
C7_BootRestartsFromStore ==
  [][(booting /\ ~booting')
       => (/\ serviceAlive' <=> StoreAsksRestart
           /\ serviceAlive' => (isRunning' /\ serviceFields' = SavedFields))]_vars

\* the service runs after a boot on a saved ride
C7_RestartedOnRide ==
  /\ serviceAlive /\ ~isBound /\ ~booting
  /\ serviceFields.rideStatus = "started" /\ serviceFields.rideId = "r1"
  /\ prefs.wasOnline

\* the driver never went offline and the store says he did
C7_OnlineForgotten == driverOnline /\ ~prefs.wasOnline

(***************************************************************************)
(* Properties of the LocationTracker.                                      *)
(***************************************************************************)
\* the smoothed displacement that fix f has from the last accepted position
FixDisplacement(f) ==
  CalculateDistance(lastValidLocation.latitude,
                    Smoothed(PushFix(locationBuffer, f)))

\* fix f has one of the three causes of a rejection: accuracy above 40 m, or,
\* after a first accepted fix, a displacement below 5 m or a speed above 50 m/s
RejectCause(f) ==
  \/ f.hasAccuracy /\ f.accuracy > maxAccuracyThreshold
  \/ /\ f.valid /\ lastValidLocation.set
     /\ \/ FixDisplacement(f) < Sixths(minDistanceThreshold)
        \/ /\ f.timestamp > lastValidLocation.timestamp
           /\ FixDisplacement(f) * 1000 >
                Sixths(maxSpeedThreshold)
                  * (f.timestamp - lastValidLocation.timestamp)

\* C8: a fix with a cause of rejection is rejected; a rejected fix leaves
\* totalDistance and the last accepted position as they are; totalDistance
\* grows only on an accepted fix, by that fix's displacement, which is at
\* least 5 m.
C8_RejectedFixKeepsDistance ==
  [][fixCount' = fixCount + 1 =>
       /\ RejectCause(lastFix') => ~trackingResult'.accepted
       /\ ~trackingResult'.accepted
            => (/\ totalDistance' = totalDistance
                /\ lastValidLocation' = lastValidLocation)
       /\ totalDistance' >= totalDistance
       /\ totalDistance' > totalDistance
            => (/\ trackingResult'.accepted
                /\ totalDistance' - totalDistance = trackingResult'.distance
                /\ trackingResult'.distance = FixDisplacement(lastFix')
                /\ trackingResult'.distance >= Sixths(minDistanceThreshold))]_vars

\* a fix of good accuracy is rejected after distance was counted
C8_RejectedAfterMovement ==
  /\ ~trackingResult.accepted
  /\ lastFix.valid /\ ~PoorAccuracy(lastFix)
  /\ lastValidLocation.set
  /\ totalDistance >= Sixths(minDistanceThreshold)

(***************************************************************************)
(* Properties of the route geometry.                                       *)
(***************************************************************************)
\* index is an end of the two-point route and the other end is not closer
CloserEndpoint(index) ==
  /\ index \in {0, 1}
  /\ GetDistance(driverLocation, At(fullRoute, index))
       <= GetDistance(driverLocation, At(fullRoute, 1 - index))

NearestEmpty(result) ==
  (result.done /\ Len(fullRoute) = 0)
    => (result.index = 0 /\ result.distance = Infinity)

\* C9 (as claimed): on an empty route the search returns index 0 with
\* infinite distance, on a two-point route the index of the closer end.
C9_NearestOnShortRoute ==
  /\ NearestEmpty(nearestOnRoute) /\ NearestEmpty(nearestIndexed)
  /\ (nearestOnRoute.done /\ Len(fullRoute) = 2)
       => CloserEndpoint(nearestOnRoute.index)
  /\ (nearestIndexed.done /\ Len(fullRoute) = 2)
       => CloserEndpoint(nearestIndexed.index)

\* the searches do find the closer end of a two-point route when the hint
\* index is 0 or 1
C9_NearestOnShortRouteHintInside ==
  /\ NearestEmpty(nearestOnRoute) /\ NearestEmpty(nearestIndexed)
  /\ (nearestOnRoute.done /\ Len(fullRoute) = 2 /\ lastNearestIndex < 2)
       => CloserEndpoint(nearestOnRoute.index)
  /\ (nearestIndexed.done /\ Len(fullRoute) = 2 /\ lastNearestIndex < 2)
       => CloserEndpoint(nearestIndexed.index)

\* both searches go back from the hint to the closer first point
C9_FoundBehindHint ==
  /\ nearestOnRoute.done /\ nearestIndexed.done
  /\ Len(fullRoute) = 2 /\ lastNearestIndex = 1
  /\ nearestOnRoute.index = 0 /\ nearestIndexed.index = 0
  /\ GetDistance(driverLocation, At(fullRoute, 0))
       < GetDistance(driverLocation, At(fullRoute, 1))

\* with a hint left over from a longer route the search of a two-point
\* route returns an index that is not on the route
C9_IndexOutsideRoute ==
  /\ nearestOnRoute.done
  /\ Len(fullRoute) = 2 /\ lastNearestIndex > 1
  /\ nearestOnRoute.index > 1
  /\ nearestOnRoute.distance = Infinity

\* the travelled segment ends where the remaining segment begins
Continuous(segments) ==
  /\ Len(segments.travelled) > 0
  /\ Len(segments.remaining) > 0
  /\ segments.travelled[Len(segments.travelled)] = segments.remaining[1]

\* C10 (as claimed): for a route of one point or more and a valid index the
\* last point of travelled is the first point of remaining.
C10_SplitContinuous ==
  /\ (routeSegments.done /\ Len(fullRoute) >= 1
        /\ lastNearestIndex < Len(fullRoute)) => Continuous(routeSegments)
  /\ (polylineSegments.done /\ Len(fullRoute) >= 1
        /\ lastNearestIndex < Len(fullRoute)) => Continuous(polylineSegments)

\* C10 (amended): for a route of two points or more and a valid index the
\* last point of travelled is the first point of remaining.
C10_SplitContinuousFromTwoPoints ==
  /\ (routeSegments.done /\ Len(fullRoute) >= 2
        /\ lastNearestIndex < Len(fullRoute)) => Continuous(routeSegments)
  /\ (polylineSegments.done /\ Len(fullRoute) >= 2
        /\ lastNearestIndex < Len(fullRoute)) => Continuous(polylineSegments)

\* both splits cut a three-point route inside its second segment
C10_SplitInsideSegment ==
  /\ routeSegments.done /\ polylineSegments.done
  /\ Len(fullRoute) = 3 /\ lastNearestIndex < Len(fullRoute)
  /\ routeSegments.nearestIndex = 1 /\ polylineSegments = routeSegments
  /\ Len(routeSegments.travelled) = 3
  /\ \A i \in 1..3 : fullRoute[i] # routeSegments.remaining[1]

(***************************************************************************)
(* Properties of simplifyRoute.                                            *)
(***************************************************************************)
\* the points of route follow one another along one line without turning
\* back
StraightLine(route) ==
  \A i, j, k \in 1..Len(route) :
     (i < j /\ j < k) =>
        LET ax == route[j].longitude - route[i].longitude
            ay == route[j].latitude - route[i].latitude
            bx == route[k].longitude - route[j].longitude
            by == route[k].latitude - route[j].latitude
        IN  ax * by - ay * bx = 0 /\ ax * bx + ay * by >= 0

\* what C11 asks of one result
SimplifiedAsClaimed(result) ==
  result.done =>
     /\ result.returned
     /\ Len(simplifyInput) >= 2 =>
          /\ Len(result.route) >= 2
          /\ result.route[1] = simplifyInput[1]
          /\ result.route[Len(result.route)] = simplifyInput[Len(simplifyInput)]
     /\ (Len(simplifyInput) >= 2 /\ StraightLine(simplifyInput)) =>
          result.route = <<simplifyInput[1], simplifyInput[Len(simplifyInput)]>>

\* C11: simplifyRoute returns for every route, keeps the first and the last
\* point of a route of two or more points, and reduces a straight line of
\* points to its two endpoints.
C11_SimplifyKeepsEndpoints ==
  SimplifiedAsClaimed(simplifiedRoute) /\ SimplifiedAsClaimed(simplifiedPolyline)

\* a bent route of four points was simplified in nested calls to three
C11_SimplifiedInNestedCalls ==
  /\ simplifiedRoute.done /\ simplifiedPolyline.done
  /\ Len(simplifyInput) = 4 /\ ~StraightLine(simplifyInput)
  /\ Len(simplifiedRoute.route) = 3
  /\ simplifiedPolyline.route = simplifiedRoute.route

(***************************************************************************)
(* Properties of the map and the off-route reaction.                       *)
(***************************************************************************)
\* the last fix or polyline update ev met the driver off the route of a
\* ride that is accepted or started and looked at it: the fix handler
\* always does, updateSmoothRoute after a significant movement and outside
\* its 3 s throttle
ObservesDeviation(ev) ==
  /\ rideStatus \in ActiveStatuses /\ ride # NoRide
  /\ fullRouteCoords # NoRoute
  /\ ev.distance > OFF_ROUTE_THRESHOLD
  /\ ev.path = "polyline" => ev.significant /\ ~lastOffRouteCheckTime

CancelledStep == lastInbound' # lastInbound

BillingConfirmed == showBillModal /\ backendBills # {}

\* C17: while the completion is unanswered or has failed, the screen stays
\* in started with its ride and its route, and the native service is not
\* told that the ride is over; rideStatus is completed or idle for a ride
\* only once the backend confirmed its billing.
C17_FailedCompletionKeepsTrip ==
  /\ (ride # NoRide /\ rideStatus \in {"completed", "idle"}) => BillingConfirmed
  /\ (ride # NoRide /\ (completionInFlight.pending \/ alert.kind = "error")) =>
       /\ rideStatus = "started"
       /\ fullRouteCoords # NoRoute
       /\ UpdateRideStatusCall("online", NoId) \notin emitted

\* C17 witness: the completion call failed; the error dialog is up over a
\* screen that shows the ride completed, with the route gone from the map.
C17_CompletedUnconfirmed ==
  /\ alert.kind = "error" /\ ride # NoRide
  /\ rideStatus = "completed"
  /\ fullRouteCoords = NoRoute
  /\ backendBills = {}

\* the recalculation request is stale: the ride it was asked for is no
\* longer accepted or started, or is in another phase than the one whose
\* target the request leads to
Stale(request) ==
  \/ rideStatus \notin ActiveStatuses
  \/ ride = NoRide
  \/ ride.rideId # request.rideId
  \/ TargetOf(rideStatus) # request.target

\* C18: the answer of a stale recalculation leaves the route of the map as
\* it is, so that the route stays empty in idle and no route to the pickup
\* is installed during the trip.
C18_StaleRecalculationDiscarded ==
  [][(Len(recalcInFlight') < Len(recalcInFlight) /\ Stale(recalcInFlight[1]))
       => fullRouteCoords' = fullRouteCoords]_vars

\* C18 witness: the screen is idle and a route is on the map.
C18_RouteInIdle ==
  /\ rideStatus = "idle" /\ ride = NoRide
  /\ fullRouteCoords # NoRoute
  /\ recalcInFlight = <<>>

(***************************************************************************)
(* Properties of the connection channels.                                  *)
(***************************************************************************)
\* C14: connecting a channel that is connected or connecting has no
\* effect: connectSocket leaves the JS socket and its heartbeat timer as
\* they are, and a start of the native service leaves its socket and its
\* heartbeat runnables as they are.
C14_ConnectIdempotent ==
  [][/\ (ConnectSocket /\ heartbeatSocket \in {"opening", "up"})
          => UNCHANGED <<heartbeatSocket, heartbeatInterval>>
     /\ ((\E u \in SocketUrls : StartService(DriverId, "taxi", u))
            /\ socket \in {"connecting", "connected"})
          => (socket' = socket /\ heartbeatChains' = heartbeatChains)]_vars

\* C14 witness: the native service was started again while its socket was
\* connected: a second socket is connecting and a second heartbeat
\* runnable is pending.
C14_SecondSocket ==
  /\ serviceAlive /\ isSocketConnected
  /\ socket = "connecting"
  /\ heartbeatChains = 2

\* C15: whenever a channel becomes connected its reconnect counter is 0
\* afterwards, and the first message emitted on the JS socket since it
\* connected is the registration of the driver.
C15_ConnectedResetsAndRegisters ==
  [][/\ (heartbeatSocket # "up" /\ heartbeatSocket' = "up")
          => /\ socketReconnectAttempts' = 0
             /\ outbound' # <<>> /\ Head(outbound') = "registerDriver"
     /\ (heartbeatSocket = "up" /\ heartbeatSocket' = "up" /\ outbound' # <<>>)
          => Head(outbound') = "registerDriver"
     /\ (~isSocketConnected /\ isSocketConnected')
          => reconnectAttempts' = 0]_vars

\* C15 witness: the JS socket is connected and the first message emitted
\* since is a heartbeat.
C15_HeartbeatBeforeRegistration ==
  /\ heartbeatSocket = "up"
  /\ outbound # <<>> /\ Head(outbound) = "heartbeat"

\* C16: after disconnectSocket(), and until the next connectSocket(), no
\* reconnect timeout is pending and the JS socket does not start to
\* connect; a native service that was stopped has no socket and no
\* reconnect callback pending.
C16_NoAttemptAfterDisconnect ==
  [][/\ explicitDisconnect' => reconnectTimeouts' = 0
     /\ (explicitDisconnect /\ explicitDisconnect')
          => ~(heartbeatSocket = "down" /\ heartbeatSocket' = "opening")
     /\ ~serviceAlive' => (reconnectTimers' = 0 /\ socket' = "null")]_vars

\* C16 witness: the JS socket connects after disconnectSocket(), started
\* by the timeout of the disconnect handler and not by the heartbeat.
C16_ConnectsAfterDisconnect ==
  /\ explicitDisconnect
  /\ heartbeatSocket = "opening"
  /\ socketReconnectAttempts = 0 /\ ~tickWaiting

(***************************************************************************)
(* Properties of the stored snapshot.                                      *)
(***************************************************************************)
\* the saveRideState writes in progress
SavesInProgress ==
  {i \in 1..Len(snapshotWrites) : snapshotWrites[i] # NoSnapshot}

\* once no call is in progress the snapshot of an active ride holds the
\* rideStatus of the screen
StoredIsLatest ==
  (snapshotWrites = <<>> /\ ride # NoRide /\ rideStatus \in ActiveStatuses)
    => snapshotStored = [ride |-> ride, rideStatus |-> rideStatus]

\* C19: never are two saveRideState writes in progress together, and once
\* all writes have finished the stored snapshot holds the rideStatus of the
\* screen, not an older one.
C19_SnapshotWritesSerialized ==
  /\ Cardinality(SavesInProgress) <= 1
  /\ StoredIsLatest

\* C19 witness: the trip started and two writes are in progress, the first
\* with the rideStatus "accepted" of the render before, the second with
\* "started".
C19_TwoWritesInProgress ==
  /\ rideStatus = "started"
  /\ Len(snapshotWrites) >= 2
  /\ snapshotWrites[1].rideStatus = "accepted"
  /\ snapshotWrites[2].rideStatus = "started"

(***************************************************************************)
(* Properties of the location emitters.                                    *)
(***************************************************************************)
\* C20: a driverLocationUpdate never carries an older fix than the one
\* emitted before it, whichever emitter sends it.
C20_EmissionMonotonic ==
  [][lastEmittedFix' >= lastEmittedFix]_vars

\* C20 witness: fix 2 was emitted and then fix 1, by the handler that
\* awaited the route or by the heartbeat callback that waited for the
\* reconnect.
C20_OlderFixEmittedLast ==
  /\ locationFix = 2
  /\ lastEmittedFix = 1
  /\ fixAwaitingRoute = 0 /\ waitingTickLocation = NoTick

(***************************************************************************)
(* Properties of the ride and its status.                                  *)
(***************************************************************************)
\* C21: a ride is set exactly when rideStatus is not idle.
C21_RideExactlyWhenNotIdle ==
  (ride # NoRide) <=> (rideStatus # "idle")

\* C21 witness: an accept was answered with an error other than
\* rideCancelled / alreadyAccepted: the screen is idle and still holds the
\* ride of the offer.
C21_IdleWithRide ==
  /\ rideStatus = "idle" /\ ride # NoRide
  /\ acceptInFlight = <<>> /\ ~isAccepting
  /\ tripStartTimer = NoTimer

(***************************************************************************)
(* Properties of the order of ride messages.                               *)
(***************************************************************************)
\* the handler of an offer for ride r has not finished
OfferPending(r) == \E i \in 1..Len(offerFetches) : offerFetches[i].rideId = r

\* C22: a ride reported taken after its offer was received is not the open
\* offer of the screen once the handler of the offer has finished.
C22_TakenOfferNotPresented ==
  \A r \in takenSinceOffer :
    ~OfferPending(r)
      => ~(ride # NoRide /\ ride.rideId = r /\ rideStatus = "onTheWay")

\* C22 witness: no handler is pending, and the screen shows as its open
\* offer a ride that was reported taken after the offer arrived.
C22_TakenOfferPresented ==
  /\ offerFetches = <<>>
  /\ ride # NoRide /\ ride.rideId \in takenSinceOffer
  /\ rideStatus = "onTheWay"
  /\ alert = [kind |-> "offer", rideId |-> ride.rideId]

(***************************************************************************)
(* Properties of the route interpolation.                                  *)
(***************************************************************************)
LongerLength == Max(Len(interpolateOld), Len(interpolateNew))

\* C23 as stated: for every progress in [0, 1] and routes of any lengths the
\* interpolated route has the length of the longer route.
C23_InterpolatedLengthIsMax ==
  /\ interpolatedRoutes.done => Len(interpolatedRoutes.route) = LongerLength
  /\ interpolatedRoute.done => Len(interpolatedRoute.route) = LongerLength
  /\ interpolatedHook.done => Len(interpolatedHook.route) = LongerLength

\* the length the functions of RouteService and SmoothPolyline return
LengthAtProgress ==
  IF interpolateOld = <<>> \/ interpolateNew = <<>> THEN LongerLength
  ELSE IF interpolateProgress = ProgressScale THEN Len(interpolateNew)
  ELSE IF interpolateProgress = 0 THEN Len(interpolateOld)
  ELSE LongerLength

\* C23 amended: strictly between 0 and 1 the interpolated route has the
\* length of the longer route; at progress 1 it is the new route, at
\* progress 0 the old one; an empty route gives the other route.  The
\* interpolateRoutes of the animation hook gives one point for each point
\* of the new route, and the old route when the new one is empty.
C23_InterpolatedLength ==
  /\ interpolatedRoutes.done
       => Len(interpolatedRoutes.route) = LengthAtProgress
  /\ interpolatedRoute.done
       => Len(interpolatedRoute.route) = LengthAtProgress
  /\ interpolatedHook.done
       => Len(interpolatedHook.route) =
            IF interpolateNew = <<>> THEN Len(interpolateOld)
            ELSE Len(interpolateNew)

\* C23 witness: a longer old route and a shorter new one were interpolated
\* half way, and the result has the length of the old route.
C23_InterpolatedHalfWay ==
  /\ interpolatedRoutes.done
  /\ interpolateNew # <<>>
  /\ Len(interpolateOld) > Len(interpolateNew)
  /\ interpolateProgress \notin {0, ProgressScale}
  /\ Len(interpolatedRoutes.route) = Len(interpolateOld)

(***************************************************************************)
(* Properties of fetchRoute.                                               *)
(***************************************************************************)
\* a call of fetchRoute sent at most three requests, and once it returned
\* it gave a route: the straight line when no request was answered with one
FetchBounded(call) ==
  /\ call.requests <= maxRetries + 1
  /\ call.phase = "done"
       => /\ call.result # <<>>
          /\ ~call.routed => call.result = <<call.origin, call.destination>>

\* C24: every call of fetchRoute returns, after at most three requests,
\* with a route that is the straight line when every attempt failed; the
\* trip start does not wait for the route to the pickup.
C24_FetchRouteTerminates ==
  /\ [](\A caller \in FetchCallers : FetchBounded(fetchCalls[caller]))
  /\ \A caller \in FetchCallers :
       (fetchCalls[caller].phase # "idle") ~> (fetchCalls[caller].phase = "done")
  /\ [][(tripStartTimer.pending /\ fetchCalls["accept"].phase # "done")
          => ENABLED ProceedWithTripStartSafe]_vars

\* C24 witness: three requests of the accept failed and fetchRoute returned
\* the straight line, while the trip had started.
C24_FallbackAfterThreeRequests ==
  /\ fetchCalls["accept"].phase = "done"
  /\ fetchCalls["accept"].requests = maxRetries + 1
  /\ ~fetchCalls["accept"].routed
  /\ fetchCalls["accept"].result = <<DriverPosition, PickupPosition>>
  /\ rideStatus = "started"


\* the fix of the step passed the validity and accuracy checks and was
\* rejected by FILTER 1 (jitter) or FILTER 2 (speed)
RejectedByFilter ==
  /\ lastFix.valid /\ ~PoorAccuracy(lastFix)
  /\ ~trackingResult.accepted

\* C25: a fix rejected as jitter or as a speed glitch leaves the filter
\* state unchanged: the smoothing buffer, the last accepted position and
\* totalDistance.
C25_FilteredFixLeavesBuffer ==
  [][(fixCount' = fixCount + 1 /\ RejectedByFilter')
       => UNCHANGED <<locationBuffer, lastValidLocation, totalDistance>>]_vars

\* two fixes were given since the tracker was created or reset; the second
\* was rejected by a filter and is in the smoothing buffer, from where it
\* enters the mean of the next fix.
C25_RejectedFixInBuffer ==
  /\ fixCount = 2
  /\ lastValidLocation.set
  /\ RejectedByFilter
  /\ Len(locationBuffer) = 2
  /\ locationBuffer[2] = lastFix.latitude
  /\ Smoothed(PushFix(locationBuffer, lastFix))
       # Smoothed(PushFix(<<locationBuffer[1]>>, lastFix))


\* progress of splitRouteAtDriver, a percentage clamped to 0..100
Progress(route, nearestIndex) ==
  IF Len(route) < 2 THEN 0
  ELSE Min(100, Max(0, (nearestIndex * 100) \div (Len(route) - 1)))

\* a computed search result lies on the route, at a finite distance
OnRoute(result) ==
  (result.done /\ Len(fullRoute) > 0)
    => (result.index \in 0..(Len(fullRoute) - 1) /\ result.distance < Infinity)

\* the index and the progress of computed segments
SegmentsOnRoute(segments) ==
  (segments.done /\ Len(fullRoute) > 0)
    => /\ segments.nearestIndex \in 0..(Len(fullRoute) - 1)
       /\ Progress(fullRoute, segments.nearestIndex) \in 0..100

\* C26: for a non-empty route and any hint index both searches return an
\* index of the route with a finite distance, and the splits built on them
\* an index of the route and a progress within 0..100.
C26_NearestWithinRoute ==
  /\ OnRoute(nearestOnRoute) /\ OnRoute(nearestIndexed)
  /\ SegmentsOnRoute(routeSegments) /\ SegmentsOnRoute(polylineSegments)

\* findNearestPointIndex and both splits of a two-point route, called with
\* the hint kept from a longer route, return the hint itself
C26_StaleHintReturned ==
  /\ nearestIndexed.done /\ routeSegments.done /\ polylineSegments.done
  /\ Len(fullRoute) = 2 /\ lastNearestIndex = MaxHintIndex
  /\ nearestIndexed.index = lastNearestIndex
  /\ nearestIndexed.distance = Infinity
  /\ routeSegments.nearestIndex = lastNearestIndex
  /\ polylineSegments.nearestIndex = lastNearestIndex
  /\ Progress(fullRoute, routeSegments.nearestIndex) = 100

\* the progress of computed segments is within 0..100 whatever the hint
ProgressWithinRange ==
  /\ routeSegments.done
       => Progress(fullRoute, routeSegments.nearestIndex) \in 0..100
  /\ polylineSegments.done
       => Progress(fullRoute, polylineSegments.nearestIndex) \in 0..100


\* C27: a fix whose timestamp is not later than the timestamp of the last
\* accepted fix does not increase totalDistance.
C27_NoDistanceWithoutElapsedTime ==
  [][(/\ fixCount' = fixCount + 1
      /\ lastValidLocation.set
      /\ lastFix'.valid
      /\ lastFix'.timestamp <= lastValidLocation.timestamp)
       => totalDistance' <= totalDistance]_vars

\* a fix with the earliest timestamp there is was accepted after an earlier
\* accepted fix and its displacement, of 50 m or more, was added to
\* totalDistance
C27_DistanceInNoTime ==
  /\ trackingResult.accepted
  /\ lastFix.timestamp = 0
  /\ lastValidLocation.timestamp = 0
  /\ trackingResult.distance >= Sixths(maxSpeedThreshold)
  /\ totalDistance >= trackingResult.distance


\* the service started a socket while the one it had was connected: the
\* older socket was not closed
SecondSocket == isSocketConnected /\ socket = "connecting"

\* C28: the native service has at most one socket, at most one chain of
\* heartbeat runnables and at most one pending reconnect callback.
C28_AtMostOneOfEach ==
  /\ ~SecondSocket
  /\ heartbeatChains <= 1
  /\ reconnectTimers <= 1

\* two heartbeat chains run and two reconnect callbacks are pending while
\* the service replaces a connected socket
C28_TwoChainsTwoTimers ==
  /\ serviceAlive /\ isRunning
  /\ heartbeatChains = 2
  /\ reconnectTimers = 2
  /\ SecondSocket


\* C29: updateRideStatus on a running service changes rideStatus and
\* rideId only: the service keeps its driverId, vehicleType, socketUrl and
\* socket and keeps running, and the stored driverId and wasOnline flag are
\* as they were.
C29_UpdateChangesRideOnly ==
  [][(/\ serviceAlive /\ isRunning
      /\ \E status \in ServiceStatuses, r \in ServiceRideIds :
           UpdateRideStatus(status, r))
       => /\ serviceAlive' /\ isRunning'
          /\ serviceFields'.driverId = serviceFields.driverId
          /\ serviceFields'.vehicleType = serviceFields.vehicleType
          /\ serviceFields'.socketUrl = serviceFields.socketUrl
          /\ socket' = socket /\ isSocketConnected' = isSocketConnected
          /\ prefs'.driverId = prefs.driverId
          /\ prefs'.wasOnline = prefs.wasOnline]_vars

\* updateRideStatus on a bound service does change the ride fields only
C29_BoundUpdateChangesRideOnly ==
  [][(/\ serviceAlive /\ isRunning /\ isBound
      /\ \E status \in ServiceStatuses, r \in ServiceRideIds :
           UpdateRideStatus(status, r))
       => /\ serviceAlive' /\ isRunning'
          /\ serviceFields'.driverId = serviceFields.driverId
          /\ serviceFields'.vehicleType = serviceFields.vehicleType
          /\ serviceFields'.socketUrl = serviceFields.socketUrl
          /\ socket' = socket /\ isSocketConnected' = isSocketConnected
          /\ prefs'.driverId = prefs.driverId
          /\ prefs'.wasOnline = prefs.wasOnline]_vars

\* the state an update without a binding leaves: the driver is online, no
\* service runs and none is owed a restart, and the store holds the ride
\* of the update with no driverId and wasOnline false
C29_ServiceStoppedByUpdate ==
  /\ driverOnline /\ ~isBound /\ ~booting
  /\ ~serviceAlive /\ ~isRunning /\ socket = "null"
  /\ ~stickyPending
  /\ prefs.driverId = NULL /\ ~prefs.wasOnline
  /\ prefs.vehicleType = NULL


(***************************************************************************)
(* Properties of the accept lock.                                          *)
(***************************************************************************)
AcceptLocked == isAccepting \/ acceptButtonDisabled

\* C30: every accept attempt eventually releases the accept lock:
\* isAccepting and acceptButtonDisabled return to false.
C30_AcceptLockReleased == AcceptLocked ~> ~AcceptLocked

\* the socket is connected again and the lock is held, with no
\* acknowledgement owed and no acceptRide parked that would release it
C30_LockedWithNothingPending ==
  /\ socketConnected
  /\ isAccepting /\ acceptButtonDisabled
  /\ acceptInFlight = <<>>
  /\ acceptWaitConnect = {}

\* the lock of an attempt made on a disconnected socket is released when
\* the parked acceptRide is run again
C30_ParkedAttemptRetried ==
  [][(\E w \in acceptWaitConnect : AcceptRetry(w))
       => Len(acceptInFlight') = Len(acceptInFlight) + 1]_vars
====
